---- MODULE Spec2Model ----
(***************************************************************************)
(* A model of the symbolication core of samply: the derivation of debug    *)
(* ids from ELF and PE/PDB files, the identity check made before a symbol  *)
(* table is built, and the construction of the symbol tables.              *)
(*                                                                         *)
(* Strings are sequences of one-character strings, bytes are 0..255, a     *)
(* Rust Option is a sequence of length 0 (None) or 1 (Some).  A call of a  *)
(* library function is one action: it draws the call's inputs and records  *)
(* them, with the value returned, in the variables of its component.       *)
(***************************************************************************)
EXTENDS Integers, Sequences, FiniteSets, TLC

VARIABLES elfIn, elfOut, pdbIn, pdbOut, jit, lib, symIn, symOut, cliIn, cliOut,
          etw, ctx, dyld

vars == <<elfIn, elfOut, pdbIn, pdbOut, jit, lib, symIn, symOut, cliIn, cliOut,
          etw, ctx, dyld>>
elfVars == <<elfIn, elfOut>>
pdbVars == <<pdbIn, pdbOut>>
symVars == <<symIn, symOut>>
cliVars == <<cliIn, cliOut>>
\* the variables of the other components
notElf == <<pdbVars, jit, lib, symVars, cliVars, etw, ctx, dyld>>
notPdb == <<elfVars, jit, lib, symVars, cliVars, etw, ctx, dyld>>
notJit == <<elfVars, pdbVars, lib, symVars, cliVars, etw, ctx, dyld>>
notLib == <<elfVars, pdbVars, jit, symVars, cliVars, etw, ctx, dyld>>
notSym == <<elfVars, pdbVars, jit, lib, cliVars, etw, ctx, dyld>>
notCli == <<elfVars, pdbVars, jit, lib, symVars, etw, ctx, dyld>>
notEtw == <<elfVars, pdbVars, jit, lib, symVars, cliVars, ctx, dyld>>
notCtx == <<elfVars, pdbVars, jit, lib, symVars, cliVars, etw, dyld>>
notDyld == <<elfVars, pdbVars, jit, lib, symVars, cliVars, etw, ctx>>

(***************************************************************************)
(* Bounds of the model.                                                    *)
(***************************************************************************)
\* longest build-id identifier drawn (longer than UUID_SIZE: truncation)
MaxIdLen == 18
\* number of byte patterns the identifiers and section contents are drawn from
NumPatterns == 3
\* .text sections of 0..MaxSmallText bytes are drawn, and
MaxSmallText == 18
\* .text sections of PAGE_SIZE-1 .. PAGE_SIZE+MaxTextExtra bytes
MaxTextExtra == 2
\* ages 0..MaxSmallAge are drawn, beside the ages at the limb and u32 limits
MaxSmallAge == 17
\* longest list of global symbols of a PDB
MaxPublics == 2
\* longest symbol stream of a PDB module
MaxProcs == 2
\* longest list of exports of a PE
MaxExports == 2
\* most MethodLoadVerbose events of a process
MaxJitEvents == 2
\* most LibMapping events of a process
MaxLibEvents == 3
\* symbols are drawn at the addresses 1..MaxSymAddr of a symbol table
MaxSymAddr == 3
\* with sizes 0..MaxSymSize, or of unknown size
MaxSymSize == 2
\* most tokens after `samply record` on a command line
MaxArgs == 3
\* longest serialized profile, in bytes
MaxProfileLen == 5
\* capacity of the BufWriter of the output file, in bytes
BufCapacity == 2
\* most properties of the schema of an ETW event
MaxProps == 2
\* most methods loaded in the processes of a profile context
MaxCtxEvents == 2

(***************************************************************************)
(* Option, bytes, hexadecimal formatting.                                  *)
(***************************************************************************)
None == <<>>
Some(x) == <<x>>
IsSome(o) == Len(o) = 1
Unwrap(o) == o[1]

Min(a, b) == IF a <= b THEN a ELSE b

RECURSIVE Xor(_, _)
\* a ^ b on unsigned integers
Xor(a, b) ==
  IF a = 0 THEN b
  ELSE IF b = 0 THEN a
  ELSE (((a % 2) + (b % 2)) % 2) + 2 * Xor(a \div 2, b \div 2)

UpperDigits == <<"0","1","2","3","4","5","6","7","8","9","A","B","C","D","E","F">>
LowerDigits == <<"0","1","2","3","4","5","6","7","8","9","a","b","c","d","e","f">>

\* one byte as two uppercase hexadecimal digits
UpperHexByte(b) == <<UpperDigits[(b \div 16) + 1], UpperDigits[(b % 16) + 1]>>

RECURSIVE UpperHexBytes(_)
UpperHexBytes(bytes) ==
  IF bytes = <<>> THEN <<>>
  ELSE UpperHexByte(Head(bytes)) \o UpperHexBytes(Tail(bytes))

RECURSIVE FormatSimpleUpper_unpadded(_)
FormatSimpleUpper_unpadded(uuid) ==
  IF uuid = <<>> THEN <<>>
  ELSE (IF Head(uuid) < 16 THEN <<UpperDigits[Head(uuid) + 1]>>
        ELSE UpperHexByte(Head(uuid)))
         \o FormatSimpleUpper_unpadded(Tail(uuid))

\* format!("{:X}", uuid.to_simple()): the 16 bytes in order, 32 uppercase digits
FormatSimpleUpper(uuid) == UpperHexBytes(uuid)

\* slice[lo..hi].reverse() on a 0-based slice held as a 1-based sequence
ReverseRange(data, lo, hi) ==
  [i \in 1..Len(data) |->
     IF lo < i /\ i <= hi THEN data[lo + hi + 1 - i] ELSE data[i]]

(***************************************************************************)
(* src/lib/src/elf.rs                                                      *)
(***************************************************************************)
UUID_SIZE == 16
PAGE_SIZE == 4096

\* the i-th byte (from 0) of byte pattern p; pattern 1 starts a0 b1 c2 d3 ...
PatByte(p, i) ==
  ((160 * p) + ((17 + (6 * (p - 1))) * i)
     + (((i \div 16) * ((i \div 16) + p)) \div 3)) % 256

PatSeq(p, n) == [i \in 1..n |-> PatByte(p, i - 1)]

\* the bytes of a section
SectionData(s) == PatSeq(s.pat, s.len)

create_elf_id_no_field3(identifier, little_endian) ==
  LET len == Min(Len(identifier), UUID_SIZE)
      data == [i \in 1..UUID_SIZE |-> IF i <= len THEN identifier[i] ELSE 0]
  IN  IF little_endian
      THEN ReverseRange(ReverseRange(data, 0, 4), 4, 6)
      ELSE data

create_elf_id_overlap(identifier, little_endian) ==
  LET len == Min(Len(identifier), UUID_SIZE)
      data == [i \in 1..UUID_SIZE |-> IF i <= len THEN identifier[i] ELSE 0]
  IN  IF little_endian
      THEN ReverseRange(ReverseRange(ReverseRange(data, 0, 4), 4, 6), 5, 8)
      ELSE data

create_elf_id(identifier, little_endian) ==
  LET len == Min(Len(identifier), UUID_SIZE)
      data == [i \in 1..UUID_SIZE |-> IF i <= len THEN identifier[i] ELSE 0]
  IN  IF little_endian
      THEN ReverseRange(ReverseRange(ReverseRange(data, 0, 4), 4, 6), 6, 8)
      ELSE data

RECURSIVE HashRange(_, _, _, _)
\* for i in lo..hi { hash[i % UUID_SIZE] ^= section_data[i] }, the steps taken
\* in index order (the range is halved to keep the evaluation shallow)
HashRange(section_data, lo, hi, hash) ==
  IF lo >= hi THEN hash
  ELSE IF hi - lo = 1
       THEN [hash EXCEPT ![(lo % UUID_SIZE) + 1] = Xor(@, section_data[lo + 1])]
       ELSE LET mid == (lo + hi) \div 2
                first == HashRange(section_data, lo, mid, hash)
            IN  IF Len(first) = UUID_SIZE
                THEN HashRange(section_data, mid, hi, first)
                ELSE first

\* the first section of kind Text, and its data if it can be read
find_text_section(file) ==
  LET texts == {i \in 1..Len(file.sections) : file.sections[i].kind = "Text"}
  IN  IF texts = {} THEN None
      ELSE LET header == file.sections[CHOOSE i \in texts : \A j \in texts : i <= j]
           IN  IF header.readable THEN Some(SectionData(header)) ELSE None

get_elf_id_whole_section(file) ==
  IF file.build_id.res = "Err" THEN None
  ELSE IF file.build_id.res = "Some"
  THEN Some(create_elf_id(file.build_id.val, file.little_endian))
  ELSE LET text == find_text_section(file)
       IN  IF IsSome(text)
           THEN LET section_data == Unwrap(text)
                    hash == HashRange(section_data, 0, Len(section_data),
                                      [k \in 1..UUID_SIZE |-> 0])
                IN  Some(create_elf_id(hash, file.little_endian))
           ELSE None

get_elf_id(file) ==
  IF file.build_id.res = "Err" THEN None
  ELSE IF file.build_id.res = "Some"
  THEN Some(create_elf_id(file.build_id.val, file.little_endian))
  ELSE LET text == find_text_section(file)
       IN  IF IsSome(text)
           THEN LET section_data == Unwrap(text)
                    hash == HashRange(section_data, 0,
                                      Min(Len(section_data), PAGE_SIZE),
                                      [k \in 1..UUID_SIZE |-> 0])
                IN  Some(create_elf_id(hash, file.little_endian))
           ELSE None

elf_id_string_no_nibble(elf_id) == FormatSimpleUpper(elf_id)

\* format!("{:X}0", elf_id.to_simple())
elf_id_string(elf_id) == FormatSimpleUpper(elf_id) \o <<"0">>

elf_get_symbolication_result_unchecked(file, breakpad_id) ==
  IF ~file.parses
  THEN [kind |-> "InvalidInputError", msg |-> "Could not parse ELF header",
        id_string |-> None, map |-> None]
  ELSE LET elf_id == get_elf_id(file)
       IN  IF ~IsSome(elf_id)
           THEN [kind |-> "InvalidInputError", msg |-> "id cannot be read",
                 id_string |-> None, map |-> None]
           ELSE [kind |-> "Ok", id_string |-> Some(elf_id_string(Unwrap(elf_id))),
                 map |-> Some(file.symbols)]

\* elf.rs get_symbolication_result; map is object_to_map(&elf_file), built
\* only on the path that returns Ok; id_string is the local elf_id_string
elf_get_symbolication_result(file, breakpad_id) ==
  IF ~file.parses
  THEN [kind |-> "InvalidInputError", msg |-> "Could not parse ELF header",
        id_string |-> None, map |-> None]
  ELSE LET elf_id == get_elf_id(file)
       IN  IF ~IsSome(elf_id)
           THEN [kind |-> "InvalidInputError", msg |-> "id cannot be read",
                 id_string |-> None, map |-> None]
           ELSE LET id_string == elf_id_string(Unwrap(elf_id))
                IN  IF id_string /= breakpad_id
                    THEN [kind |-> "UnmatchedBreakpadId",
                          got |-> id_string, requested |-> breakpad_id,
                          id_string |-> Some(id_string), map |-> None]
                    ELSE [kind |-> "Ok", id_string |-> Some(id_string),
                          map |-> Some(file.symbols)]

(***************************************************************************)
(* The ELF files and requests drawn.                                       *)
(***************************************************************************)
Identifiers == {PatSeq(p, n) : p \in 1..NumPatterns, n \in 0..MaxIdLen}

TextLens == (0..MaxSmallText) \cup ((PAGE_SIZE - 1)..(PAGE_SIZE + MaxTextExtra))

TextSection(p, n) == [kind |-> "Text", readable |-> TRUE, pat |-> p, len |-> n]
DataSection == [kind |-> "Data", readable |-> TRUE, pat |-> 1, len |-> 8]
UnreadableText == [kind |-> "Text", readable |-> FALSE, pat |-> 1, len |-> 32]

ElfFile(ok, bid, secs, le) ==
  [parses |-> ok, build_id |-> bid, sections |-> secs, little_endian |-> le,
   symbols |-> {<<4096, "main">>}]

NoBuildId == [res |-> "None", val |-> <<>>]
BuildIdErr == [res |-> "Err", val |-> <<>>]
BuildId(identifier) == [res |-> "Some", val |-> identifier]

ElfFiles ==
  \* a build-id note, and a .text section that must not be used
  {ElfFile(TRUE, BuildId(id), <<DataSection, TextSection(2, 16)>>, le) :
      id \in Identifiers, le \in BOOLEAN}
  \cup
  \* no build-id: the first .text section is hashed
  {ElfFile(TRUE, NoBuildId, <<DataSection, TextSection(p, n)>>, le) :
      p \in 1..NumPatterns, n \in TextLens, le \in BOOLEAN}
  \cup
  {ElfFile(TRUE, NoBuildId, <<TextSection(1, 16), TextSection(2, 16)>>, le) :
      le \in BOOLEAN}
  \cup
  \* no build-id and no usable .text section
  {ElfFile(TRUE, NoBuildId, secs, le) :
      secs \in {<<>>, <<DataSection>>, <<UnreadableText, TextSection(1, 16)>>},
      le \in BOOLEAN}
  \cup
  \* the notes cannot be read; the header cannot be parsed
  {ElfFile(TRUE, BuildIdErr, <<TextSection(1, 16)>>, TRUE),
   ElfFile(FALSE, BuildId(PatSeq(1, 16)), <<TextSection(1, 16)>>, TRUE)}

ToLower(c) ==
  IF \E k \in 1..16 : UpperDigits[k] = c
  THEN LowerDigits[CHOOSE k \in 1..16 : UpperDigits[k] = c]
  ELSE c

C2ClaimedId ==
  <<"D","3","C","2","B","1","A","0","F","5","E","4","1","7","2","8",
    "0","6","3","9","4","A","5","B","6","C","7","D","8","E","9","F","0">>

\* the breakpad ids requested of a file: its own, and near misses of it
ElfRequests(file) ==
  LET elf_id == get_elf_id(file)
      ids == IF IsSome(elf_id) THEN {elf_id_string(Unwrap(elf_id))} ELSE {}
      near == IF file.build_id.res = "Some" THEN ids ELSE {}
  IN  ids
      \cup {[i \in 1..Len(s) |-> ToLower(s[i])] : s \in near}
      \cup {SubSeq(s, 1, Len(s) - 1) : s \in near}
      \cup {SubSeq(s, 1, Len(s) - 1) \o <<"1">> : s \in near}
      \cup {C2ClaimedId, <<>>}

ElfIdle == [op |-> "none"]

PdbIdle == [op |-> "none"]

\* the call about to be made, with its arguments
\* the components that are not c take no part in the run
Idle == [op |-> "none"]
OthersIdle(c) ==
  /\ IF c = "elf" THEN TRUE ELSE elfIn = ElfIdle /\ elfOut = ElfIdle
  /\ IF c = "pdb" THEN TRUE ELSE pdbIn = PdbIdle /\ pdbOut = PdbIdle
  /\ IF c = "jit" THEN TRUE ELSE jit = Idle
  /\ IF c = "lib" THEN TRUE ELSE lib = Idle
  /\ IF c = "sym" THEN TRUE ELSE symIn = Idle /\ symOut = Idle
  /\ IF c = "cli" THEN TRUE ELSE cliIn = Idle /\ cliOut = Idle
  /\ IF c = "etw" THEN TRUE ELSE etw = Idle
  /\ IF c = "ctx" THEN TRUE ELSE ctx = Idle
  /\ IF c = "dyld" THEN TRUE ELSE dyld = Idle

ElfInit ==
  /\ OthersIdle("elf")
  /\ elfOut = ElfIdle
  /\ \/ \E identifier \in Identifiers, little_endian \in BOOLEAN :
          elfIn = [op |-> "create_elf_id", identifier |-> identifier,
                   little_endian |-> little_endian]
     \/ \E file \in ElfFiles :
          elfIn = [op |-> "get_elf_id", file |-> file]
     \/ \E file \in ElfFiles :
          \E breakpad_id \in ElfRequests(file) :
            elfIn = [op |-> "get_symbolication_result", file |-> file,
                     breakpad_id |-> breakpad_id]

\* a call of create_elf_id
CreateElfId ==
  /\ elfIn.op = "create_elf_id" /\ elfOut = ElfIdle
  /\ elfOut' = [op |-> "create_elf_id",
                uuid |-> create_elf_id(elfIn.identifier, elfIn.little_endian)]
  /\ UNCHANGED <<elfIn, notElf>>

\* a call of get_elf_id
GetElfId ==
  /\ elfIn.op = "get_elf_id" /\ elfOut = ElfIdle
  /\ elfOut' = [op |-> "get_elf_id", elf_id |-> get_elf_id(elfIn.file)]
  /\ UNCHANGED <<elfIn, notElf>>

\* a call of elf::get_symbolication_result
ElfGetSymbolicationResult ==
  /\ elfIn.op = "get_symbolication_result" /\ elfOut = ElfIdle
  /\ elfOut' = [op |-> "get_symbolication_result",
                res |-> elf_get_symbolication_result(elfIn.file, elfIn.breakpad_id)]
  /\ UNCHANGED <<elfIn, notElf>>

ElfNext == CreateElfId \/ GetElfId \/ ElfGetSymbolicationResult

SpecElf == ElfInit /\ [][ElfNext]_vars

(***************************************************************************)
(* u32 values.  An age is a u32; it is held as two 16-bit limbs, hi and lo, *)
(* its value being hi * 2^16 + lo.                                         *)
(***************************************************************************)
LIMB == 2 ^ 16

U32(hi, lo) == [hi |-> hi, lo |-> lo]
U32_MAX == U32(LIMB - 1, LIMB - 1)

\* a + 1 without overflow (a < U32_MAX)
U32Succ(a) ==
  IF a.lo < LIMB - 1 THEN U32(a.hi, a.lo + 1) ELSE U32(a.hi + 1, 0)

RECURSIVE LowerHexNat(_)
\* format!("{:x}", n): no padding, at least one digit
LowerHexNat(n) ==
  IF n < 16 THEN <<LowerDigits[n + 1]>>
  ELSE LowerHexNat(n \div 16) \o <<LowerDigits[(n % 16) + 1]>>

\* the four lowercase digits of a limb
LowerHexLimb(n) ==
  <<LowerDigits[(n \div 4096) + 1], LowerDigits[((n \div 256) % 16) + 1],
    LowerDigits[((n \div 16) % 16) + 1], LowerDigits[(n % 16) + 1]>>

\* format!("{:x}", a) of a u32
LowerHexU32(a) ==
  IF a.hi = 0 THEN LowerHexNat(a.lo)
  ELSE LowerHexNat(a.hi) \o LowerHexLimb(a.lo)

(***************************************************************************)
(* src/lib/src/pdb/mod.rs                                                  *)
(***************************************************************************)
pe_signature_to_uuid(identifier) ==
  ReverseRange(ReverseRange(ReverseRange(identifier, 0, 4), 4, 6), 6, 8)

\* format!("{}{:x}", format!("{:X}", guid.to_simple()), age)
pdb_id_string(guid, age) == FormatSimpleUpper(guid) \o LowerHexU32(age)

PdbErr(kind) == [kind |-> kind, map |-> None, pdb_id |-> None]

\* HashMap::insert, as collect() does for each pair
Insert(hashmap, rva, value) ==
  [r \in DOMAIN hashmap \cup {rva} |-> IF r = rva THEN value ELSE hashmap[r]]

RECURSIVE CollectPublics(_, _, _)
\* global_symbols.iter().filter_map(..).collect::<HashMap>()?: the public
\* function symbols that have an rva, a later one replacing an earlier one
\* at the same rva; an error of the iterator ends the call
CollectPublics(symbols, i, hashmap) ==
  IF i > Len(symbols) THEN [err |-> FALSE, hashmap |-> hashmap]
  ELSE LET symbol == symbols[i]
       IN  IF symbol.kind = "IterErr" THEN [err |-> TRUE, hashmap |-> hashmap]
           ELSE IF /\ symbol.kind = "Public"
                   /\ symbol.function
                   /\ IsSome(symbol.rva)
                THEN CollectPublics(symbols, i + 1,
                       Insert(hashmap, Unwrap(symbol.rva),
                              [name |-> symbol.name, dumped |-> FALSE]))
                ELSE CollectPublics(symbols, i + 1, hashmap)

OrInsert_overwriting(hashmap, rva, value) == Insert(hashmap, rva, value)

\* hashmap.entry(rva).or_insert_with(|| name)
OrInsert(hashmap, rva, value) ==
  IF rva \in DOMAIN hashmap THEN hashmap ELSE Insert(hashmap, rva, value)

RECURSIVE AddProcedures(_, _, _)
\* while let Ok(Some(symbol)) = symbols.next() { .. }: the procedure symbols of
\* one module, up to the first error of the stream; the name put in the map is
\* type_dumper.dump_function(name, type_index), whose error ends the call
AddProcedures(symbols, i, hashmap) ==
  IF i > Len(symbols) THEN [err |-> FALSE, hashmap |-> hashmap]
  ELSE LET symbol == symbols[i]
       IN  IF symbol.kind = "IterErr" THEN [err |-> FALSE, hashmap |-> hashmap]
           ELSE IF symbol.kind = "Procedure"
                THEN IF ~symbol.dump_ok THEN [err |-> TRUE, hashmap |-> hashmap]
                     ELSE AddProcedures(symbols, i + 1,
                            IF IsSome(symbol.rva)
                            THEN OrInsert(hashmap, Unwrap(symbol.rva),
                                          [name |-> symbol.name, dumped |-> TRUE])
                            ELSE hashmap)
                ELSE AddProcedures(symbols, i + 1, hashmap)

RECURSIVE AddModules(_, _, _)
\* while let Some(module) = modules.next()? { .. }
AddModules(modules, m, hashmap) ==
  IF m > Len(modules) THEN [err |-> "", hashmap |-> hashmap]
  ELSE LET module == modules[m]
       IN  IF module.kind = "NextErr" THEN [err |-> "modules.next()", hashmap |-> hashmap]
           ELSE IF module.info /= "Ok" THEN AddModules(modules, m + 1, hashmap)
           ELSE IF ~IsSome(module.symbols)
                THEN [err |-> "info.symbols()", hashmap |-> hashmap]
                ELSE LET added == AddProcedures(Unwrap(module.symbols), 1, hashmap)
                     IN  IF added.err
                         THEN [err |-> "dump_function", hashmap |-> hashmap]
                         ELSE AddModules(modules, m + 1, added.hashmap)

\* pdb/mod.rs get_symbolication_result; map is the hashmap handed to
\* R::from_map, pdb_id the local of that name; debug_info tells whether
\* add_address_debug_info can be called on the result
pdb_get_symbolication_result(pdb, breakpad_id) ==
  IF ~IsSome(pdb.info) THEN PdbErr("pdb_information")
  ELSE
  LET info == Unwrap(pdb.info)
      pdb_id == pdb_id_string(info.guid, info.age)
  IN
  IF pdb_id /= breakpad_id
  THEN [kind |-> "UnmatchedBreakpadId", got |-> pdb_id, requested |-> breakpad_id,
        map |-> None, pdb_id |-> Some(pdb_id)]
  ELSE IF ~pdb.address_map_ok THEN [PdbErr("address_map") EXCEPT !.pdb_id = Some(pdb_id)]
  ELSE IF ~IsSome(pdb.global_symbols)
       THEN [PdbErr("global_symbols") EXCEPT !.pdb_id = Some(pdb_id)]
  ELSE
  LET publics == CollectPublics(Unwrap(pdb.global_symbols), 1, <<>>)
  IN
  IF publics.err THEN [PdbErr("global_symbols.iter()") EXCEPT !.pdb_id = Some(pdb_id)]
  ELSE IF ~pdb.debug_information_ok
       THEN [kind |-> "Ok", map |-> Some(publics.hashmap), pdb_id |-> Some(pdb_id),
             debug_info |-> "never"]
  ELSE IF ~pdb.type_information_ok
       THEN [PdbErr("type_information") EXCEPT !.pdb_id = Some(pdb_id)]
  ELSE IF ~IsSome(pdb.modules)
       THEN [PdbErr("dbi.modules()") EXCEPT !.pdb_id = Some(pdb_id)]
  ELSE
  LET added == AddModules(Unwrap(pdb.modules), 1, publics.hashmap)
  IN  IF added.err /= ""
      THEN [PdbErr(added.err) EXCEPT !.pdb_id = Some(pdb_id)]
      ELSE [kind |-> "Ok", map |-> Some(added.hashmap), pdb_id |-> Some(pdb_id),
            debug_info |-> "if wanted"]

\* try_get_symbolication_result_from_pdb_path(query.clone(), helper): reads the
\* file at query.path, opens it as a PDB and symbolicates with it
try_get_symbolication_result_from_pdb_path(query, helper) ==
  LET owned_data == helper.files[query.path]
  IN  IF owned_data.kind = "Missing" THEN PdbErr("HelperErrorDuringReadFile")
      ELSE IF owned_data.kind /= "Pdb" THEN PdbErr("PdbError")
      ELSE pdb_get_symbolication_result(owned_data.pdb, query.breakpad_id)

RECURSIVE TryCandidates_propagating(_, _, _, _, _)
TryCandidates_propagating(candidates, i, query, helper, opened) ==
  IF i > Len(candidates) THEN [found |-> None, opened |-> opened]
  ELSE IF candidates[i] = query.path
       THEN TryCandidates_propagating(candidates, i + 1, query, helper, opened)
       ELSE [found |-> Some(try_get_symbolication_result_from_pdb_path(query, helper)),
             opened |-> Append(opened, query.path)]

RECURSIVE TryCandidates(_, _, _, _, _)
\* for pdb_path in candidate_paths_for_pdb { .. }: the paths read so far are
\* kept in opened; found is the first attempt that returned Ok
TryCandidates(candidates, i, query, helper, opened) ==
  IF i > Len(candidates) THEN [found |-> None, opened |-> opened]
  ELSE IF candidates[i] = query.path
       THEN TryCandidates(candidates, i + 1, query, helper, opened)
       ELSE LET table == try_get_symbolication_result_from_pdb_path(query, helper)
                read == Append(opened, query.path)
            IN  IF table.kind = "Ok"
                THEN [found |-> Some(table), opened |-> read]
                ELSE TryCandidates(candidates, i + 1, query, helper, read)

RECURSIVE ExportsMap(_, _, _)
\* pe.exports.iter().map(|export| (rva, name or "<unknown>")).collect()
ExportsMap(exports, i, hashmap) ==
  IF i > Len(exports) THEN hashmap
  ELSE ExportsMap(exports, i + 1,
         Insert(hashmap, exports[i].rva,
                IF IsSome(exports[i].name) THEN Unwrap(exports[i].name)
                ELSE "<unknown>"))

get_symbolication_result_from_pe_binary_named_only(pe) ==
  [kind |-> "Ok",
   map |-> Some(ExportsMap(SelectSeq(pe.exports, LAMBDA e : IsSome(e.name)), 1, <<>>)),
   debug_info |-> "never"]

get_symbolication_result_from_pe_binary(pe) ==
  [kind |-> "Ok", map |-> Some(ExportsMap(pe.exports, 1, <<>>)),
   debug_info |-> "never"]

\* what a call of get_symbolication_result_via_binary leaves behind: the value
\* returned (ret), whether the helper was asked for candidates, the paths
\* read, whether control came to the exports-only fallback, and the expected
\* id if it was computed
ViaBinaryOut(ret, asked, opened, fallback, expected) ==
  [ret |-> ret, asked |-> asked, opened |-> opened, fallback |-> fallback,
   expected |-> expected]

expected_age_no_increment(age, overflow_checks) == Some(age)

\* info.age + 1 on u32: at u32::MAX it panics in a build with overflow checks
\* and wraps to 0 in a build without; None is the panic
expected_age(age, overflow_checks) ==
  IF age /= U32_MAX THEN Some(U32Succ(age))
  ELSE IF overflow_checks THEN None
  ELSE Some(U32(0, 0))

get_symbolication_result_via_binary(pe, query, helper, overflow_checks) ==
  IF ~pe.parses THEN ViaBinaryOut([kind |-> "PeError"], FALSE, <<>>, FALSE, None)
  ELSE IF ~IsSome(pe.codeview)
  THEN ViaBinaryOut([kind |-> "NoDebugInfoInPeBinary", path |-> query.path],
                    FALSE, <<>>, FALSE, None)
  ELSE
  LET info == Unwrap(pe.codeview)
  IN
  IF ~info.filename_nul_ok
  THEN ViaBinaryOut([kind |-> "PdbPathDidntEndWithNul", path |-> query.path],
                    FALSE, <<>>, FALSE, None)
  ELSE IF ~IsSome(helper.candidates)
  THEN ViaBinaryOut([kind |-> "HelperErrorDuringGetCandidatePathsForPdb",
                     debug_name |-> query.debug_name,
                     breakpad_id |-> query.breakpad_id],
                    TRUE, <<>>, FALSE, None)
  ELSE
  LET tried == TryCandidates(Unwrap(helper.candidates), 1, query, helper, <<>>)
  IN
  IF IsSome(tried.found)
  THEN ViaBinaryOut(Unwrap(tried.found), TRUE, tried.opened, FALSE, None)
  ELSE
  LET signature == pe_signature_to_uuid(info.signature)
      age == expected_age(info.age, overflow_checks)
  IN
  IF ~IsSome(age)
  THEN ViaBinaryOut([kind |-> "Panic"], TRUE, tried.opened, TRUE, None)
  ELSE
  LET expected_breakpad_id == FormatSimpleUpper(signature) \o LowerHexU32(Unwrap(age))
  IN  IF query.breakpad_id /= expected_breakpad_id
      THEN ViaBinaryOut([kind |-> "UnmatchedBreakpadId",
                         got |-> expected_breakpad_id,
                         requested |-> query.breakpad_id],
                        TRUE, tried.opened, TRUE, Some(expected_breakpad_id))
      ELSE ViaBinaryOut(get_symbolication_result_from_pe_binary(pe),
                        TRUE, tried.opened, TRUE, Some(expected_breakpad_id))

(***************************************************************************)
(* The PDB files, PE files, helpers and requests drawn.                    *)
(***************************************************************************)
\* {11223344-5566-7788-99AA-BBCCDDEEFF00} as a Uuid, and as the 16 signature
\* bytes of a CodeView record (the first three fields little-endian)
C6Guid == <<17, 34, 51, 68, 85, 102, 119, 136, 153, 170, 187, 204, 221, 238, 255, 0>>
C6Signature == <<68, 51, 34, 17, 102, 85, 136, 119, 153, 170, 187, 204, 221, 238, 255, 0>>

Guids == {C6Guid, [i \in 1..UUID_SIZE |-> i - 1], [i \in 1..UUID_SIZE |-> (i * 16) % 256]}
Signatures == {C6Signature, [i \in 1..UUID_SIZE |-> i - 1]}

Ages ==
  {U32(0, n) : n \in 0..MaxSmallAge}
    \cup {U32(0, 255), U32(0, 256), U32(0, LIMB - 1), U32(1, 0), U32(1, 10),
          U32(LIMB - 1, 0), U32(LIMB - 1, LIMB - 2), U32_MAX}

PublicSymbols ==
  {[kind |-> "Public", function |-> TRUE, name |-> "?foo@@YAXH@Z", rva |-> Some(4096)],
   [kind |-> "Public", function |-> TRUE, name |-> "?foo2@@YAXH@Z", rva |-> Some(4096)],
   [kind |-> "Public", function |-> FALSE, name |-> "?data@@3HA", rva |-> Some(8192)],
   [kind |-> "Public", function |-> TRUE, name |-> "?gone@@YAXXZ", rva |-> None]}

ProcedureSymbols ==
  {[kind |-> "Procedure", name |-> "foo", rva |-> Some(4096), dump_ok |-> TRUE],
   [kind |-> "Procedure", name |-> "bar", rva |-> Some(8192), dump_ok |-> TRUE],
   [kind |-> "Procedure", name |-> "bar2", rva |-> Some(8192), dump_ok |-> TRUE],
   [kind |-> "IterErr"]}

SeqsUpTo(S, n) == UNION {[1..k -> S] : k \in 0..n}

Module(symbols) == [kind |-> "Module", info |-> "Ok", symbols |-> Some(symbols)]

\* the module streams that follow the first module
LaterModules ==
  {<<>>, <<[kind |-> "NextErr"]>>,
   <<[kind |-> "Module", info |-> "None", symbols |-> None]>>,
   <<[kind |-> "Module", info |-> "Ok", symbols |-> None]>>}
    \cup {<<Module(<<p>>)>> : p \in ProcedureSymbols}
    \cup {<<[kind |-> "Module", info |-> "Err", symbols |-> Some(<<p>>)], Module(<<p>>)>> :
            p \in ProcedureSymbols}
    \cup {<<Module(<<[kind |-> "Procedure", name |-> "bad", rva |-> None,
                       dump_ok |-> FALSE]>>)>>,
          <<Module(<<[kind |-> "S_THUNK"],
                     [kind |-> "Procedure", name |-> "gone", rva |-> None,
                      dump_ok |-> TRUE]>>)>>}

Pdb(info, globals, modules) ==
  [info |-> info, address_map_ok |-> TRUE, global_symbols |-> globals,
   debug_information_ok |-> TRUE, type_information_ok |-> TRUE,
   modules |-> modules]

PlainPdb(guid, age) ==
  Pdb(Some([guid |-> guid, age |-> age]),
      Some(<<[kind |-> "Public", function |-> TRUE, name |-> "?foo@@YAXH@Z",
              rva |-> Some(4096)]>>),
      Some(<<Module(<<[kind |-> "Procedure", name |-> "foo", rva |-> Some(4096),
                       dump_ok |-> TRUE]>>)>>))

C6ClaimedId == FormatSimpleUpper(C6Guid) \o <<"2">>

\* PDB files whose symbols vary, all of the identity (C6Guid, 2): every list
\* of global symbols with every symbol list of a single module, and at most
\* one global symbol with every symbol list and every sequence of later modules
SymbolPdbs ==
  {Pdb(Some([guid |-> C6Guid, age |-> U32(0, 2)]), Some(globals),
       Some(<<Module(first)>>)) :
     globals \in SeqsUpTo(PublicSymbols, MaxPublics),
     first \in SeqsUpTo(ProcedureSymbols, MaxProcs)}
    \cup
  {Pdb(Some([guid |-> C6Guid, age |-> U32(0, 2)]), Some(globals),
       Some(<<Module(first)>> \o later)) :
     globals \in SeqsUpTo(PublicSymbols, 1),
     first \in SeqsUpTo(ProcedureSymbols, MaxProcs),
     later \in LaterModules}

\* PDB files one part of which cannot be read
BrokenPdbs ==
  LET ok == PlainPdb(C6Guid, U32(0, 2))
  IN  {[ok EXCEPT !.info = None],
       [ok EXCEPT !.address_map_ok = FALSE],
       [ok EXCEPT !.global_symbols = None],
       [ok EXCEPT !.global_symbols = Some(<<[kind |-> "S_UDT"], [kind |-> "IterErr"]>>)],
       [ok EXCEPT !.debug_information_ok = FALSE],
       [ok EXCEPT !.type_information_ok = FALSE],
       [ok EXCEPT !.modules = None]}

ToUpper(c) ==
  IF \E k \in 1..16 : LowerDigits[k] = c
  THEN UpperDigits[CHOOSE k \in 1..16 : LowerDigits[k] = c]
  ELSE c

\* the breakpad ids requested of a PDB of identity (guid, age)
PdbRequests(guid, age) ==
  LET own == pdb_id_string(guid, age)
  IN  {own, [i \in 1..Len(own) |-> ToUpper(own[i])],
       [i \in 1..Len(own) |-> ToLower(own[i])],
       FormatSimpleUpper(guid) \o LowerHexLimb(age.hi) \o LowerHexLimb(age.lo),
       FormatSimpleUpper(guid), C6ClaimedId}

Export(rva, name) == [rva |-> rva, name |-> name]
Exports == {Export(4096, Some("foo")), Export(4096, None), Export(8192, Some("bar"))}

Pe(signature, age, nul_ok, exports) ==
  [parses |-> TRUE,
   codeview |-> Some([signature |-> signature, age |-> age,
                      filename_nul_ok |-> nul_ok]),
   exports |-> exports]

BinPath == "C:\\app\\app.dll"
PdbPathA == "C:\\sym\\app.pdb"
PdbPathB == "C:\\cache\\app.pdb"
Paths == {BinPath, PdbPathA, PdbPathB}

Missing == [kind |-> "Missing"]
PeBytes == [kind |-> "Pe"]
PdbFile(pdb) == [kind |-> "Pdb", pdb |-> pdb]

Helper(candidates, bin, a, b) ==
  [candidates |-> candidates,
   files |-> [p \in Paths |-> IF p = BinPath THEN bin ELSE IF p = PdbPathA THEN a ELSE b]]

CandidateLists ==
  {None, Some(<<>>), Some(<<PdbPathA>>), Some(<<BinPath>>),
   Some(<<BinPath, PdbPathA>>), Some(<<PdbPathA, PdbPathB>>)}

Query(breakpad_id) ==
  [debug_name |-> "app.pdb", breakpad_id |-> breakpad_id, path |-> BinPath]

\* the breakpad ids requested of a PE: with the age of its record, with one
\* more, and with the signature bytes taken in file order
ViaBinaryRequests(signature, age) ==
  LET guid == ReverseRange(ReverseRange(ReverseRange(signature, 0, 4), 4, 6), 6, 8)
  IN  {FormatSimpleUpper(guid) \o LowerHexU32(age),
       FormatSimpleUpper(guid) \o LowerHexU32(IF age = U32_MAX THEN U32(0, 0)
                                              ELSE U32Succ(age)),
       FormatSimpleUpper(signature) \o LowerHexU32(IF age = U32_MAX THEN U32(0, 0)
                                                   ELSE U32Succ(age))}

ViaBinaryCall(pe, breakpad_id, helper, overflow_checks) ==
  [op |-> "via_binary", pe |-> pe, query |-> Query(breakpad_id),
   helper |-> helper, overflow_checks |-> overflow_checks]

PdbInit ==
  /\ OthersIdle("pdb")
  /\ pdbOut = PdbIdle
  /\ \/ \E pdb \in SymbolPdbs \cup BrokenPdbs :
          pdbIn = [op |-> "get_symbolication_result", pdb |-> pdb,
                   breakpad_id |-> pdb_id_string(C6Guid, U32(0, 2))]
     \/ \E guid \in Guids, age \in Ages :
          \E breakpad_id \in PdbRequests(guid, age) :
            pdbIn = [op |-> "get_symbolication_result", pdb |-> PlainPdb(guid, age),
                     breakpad_id |-> breakpad_id]
     \* PE files of every signature and age, with no PDB to be found
     \/ \E signature \in Signatures, age \in Ages, overflow_checks \in BOOLEAN :
          \E breakpad_id \in ViaBinaryRequests(signature, age) :
            \E candidates \in {Some(<<>>), Some(<<PdbPathA>>)} :
              pdbIn = ViaBinaryCall(Pe(signature, age, TRUE, <<Export(4096, Some("foo"))>>),
                                    breakpad_id,
                                    Helper(candidates, PeBytes, Missing, Missing),
                                    overflow_checks)
     \* one PE record, with every list of exports, of candidates and of files
     \/ \E exports \in SeqsUpTo(Exports, MaxExports), candidates \in CandidateLists,
           bin \in {PeBytes, Missing, PdbFile(PlainPdb(C6Guid, U32(0, 2))),
                    PdbFile(PlainPdb(C6Guid, U32(0, 3)))},
           a \in {Missing, PdbFile(PlainPdb(C6Guid, U32(0, 2)))},
           breakpad_id \in ViaBinaryRequests(C6Signature, U32(0, 1)) :
          pdbIn = ViaBinaryCall(Pe(C6Signature, U32(0, 1), TRUE, exports), breakpad_id,
                                Helper(candidates, bin, a,
                                       PdbFile(PlainPdb(C6Guid, U32(0, 3)))),
                                FALSE)
     \* PE files that are rejected before the helper is asked
     \/ \E pe \in {[parses |-> FALSE, codeview |-> None, exports |-> <<>>],
                   [parses |-> TRUE, codeview |-> None,
                    exports |-> <<Export(4096, Some("foo"))>>],
                   Pe(C6Signature, U32(0, 1), FALSE, <<Export(4096, Some("foo"))>>)},
           candidates \in CandidateLists :
          pdbIn = ViaBinaryCall(pe, pdb_id_string(C6Guid, U32(0, 2)),
                                Helper(candidates, PeBytes,
                                       PdbFile(PlainPdb(C6Guid, U32(0, 2))), Missing),
                                TRUE)

\* a call of pdb::get_symbolication_result
PdbGetSymbolicationResult ==
  /\ pdbIn.op = "get_symbolication_result" /\ pdbOut = PdbIdle
  /\ pdbOut' = [op |-> "get_symbolication_result",
                res |-> pdb_get_symbolication_result(pdbIn.pdb, pdbIn.breakpad_id)]
  /\ UNCHANGED <<pdbIn, notPdb>>

\* a call of get_symbolication_result_via_binary, in a build with or without
\* overflow checks
GetSymbolicationResultViaBinary ==
  /\ pdbIn.op = "via_binary" /\ pdbOut = PdbIdle
  /\ pdbOut' = [op |-> "via_binary",
                res |-> get_symbolication_result_via_binary(
                          pdbIn.pe, pdbIn.query, pdbIn.helper, pdbIn.overflow_checks)]
  /\ UNCHANGED <<pdbIn, notPdb>>

PdbNext == PdbGetSymbolicationResult \/ GetSymbolicationResultViaBinary

SpecPdb == PdbInit /\ [][PdbNext]_vars

(***************************************************************************)
(* u32 and u64 values of the JIT bookkeeping, as sequences of 16-bit       *)
(* limbs, least significant first (two limbs for u32, four for u64).       *)
(***************************************************************************)
\* the u32 of the 16-bit halves hi and lo; the u64 of the four 16-bit parts
W32(hi, lo) == <<lo, hi>>
W64(a, b, c, d) == <<d, c, b, a>>
\* method_size as u64
AsU64(x) == x \o <<0, 0>>
\* a u64 truncated to u32
AsU32(x) == SubSeq(x, 1, 2)

RECURSIVE WAddFrom(_, _, _, _)
\* the limbs i.. of x + y with the carry coming in, then the carry going out
WAddFrom(x, y, i, carry) ==
  IF i > Len(x) THEN <<carry>>
  ELSE LET t == x[i] + y[i] + carry
       IN  <<t % LIMB>> \o WAddFrom(x, y, i + 1, t \div LIMB)

\* x + y in the width of x: the wrapped sum and whether it overflowed
WAdd(x, y) ==
  LET r == WAddFrom(x, y, 1, 0)
  IN  [sum |-> SubSeq(r, 1, Len(x)), overflow |-> r[Len(x) + 1] = 1]

RECURSIVE WSubFrom(_, _, _, _)
WSubFrom(x, y, i, borrow) ==
  IF i > Len(x) THEN <<>>
  ELSE LET t == x[i] - y[i] - borrow
       IN  <<t % LIMB>> \o WSubFrom(x, y, i + 1, IF t < 0 THEN 1 ELSE 0)

\* x - y in the width of x, wrapped
WSub(x, y) == WSubFrom(x, y, 1, 0)

\* x < y, for values of one width
WLess(x, y) ==
  \E i \in 1..Len(x) :
    /\ x[i] < y[i]
    /\ \A j \in (i + 1)..Len(x) : x[j] = y[j]

WLeq(x, y) == x = y \/ WLess(x, y)

(***************************************************************************)
(* src/samply/src/windows/coreclr.rs: the JIT bookkeeping of one process.  *)
(***************************************************************************)
\* the arithmetic of a build: with overflow checks an overflowing + panics
\* (None), without them it wraps
checked_add(x, y, overflow_checks) ==
  LET r == WAdd(x, y)
  IN  IF r.overflow /\ overflow_checks THEN None ELSE Some(r.sum)

\* ProcessJitInfo as ensure_process_jit_info makes it, in a build with or
\* without overflow checks; now is the timestamp of the last event
NewProcessJitInfo(overflow_checks) ==
  [op |-> "events", overflow_checks |-> overflow_checks, panicked |-> FALSE,
   now |-> 0, next_relative_address |-> W32(0, 0), jit_mapping_ops |-> <<>>,
   symbols |-> <<>>]

LibMappingAdd(start_avma, end_avma, relative_address_at_start, info) ==
  [kind |-> "Add", start_avma |-> start_avma, end_avma |-> end_avma,
   relative_address_at_start |-> relative_address_at_start, info |-> info]

\* handle_coreclr_event for CLRMethod/MethodLoadVerbose: the state of the
\* process's ProcessJitInfo after the event
MethodLoadVerboseEvent(p, timestamp_raw, method_start_address, method_size, method_name) ==
  LET relative_address == p.next_relative_address
      next == checked_add(p.next_relative_address, method_size, p.overflow_checks)
      end_avma == checked_add(method_start_address, AsU64(method_size), p.overflow_checks)
  IN  IF ~IsSome(next) THEN [p EXCEPT !.panicked = TRUE, !.now = timestamp_raw]
      ELSE IF ~IsSome(end_avma)
      THEN [p EXCEPT !.panicked = TRUE, !.now = timestamp_raw,
                     !.next_relative_address = Unwrap(next)]
      ELSE [p EXCEPT
              !.now = timestamp_raw,
              !.next_relative_address = Unwrap(next),
              !.jit_mapping_ops =
                 Append(@, [timestamp |-> timestamp_raw,
                            op |-> LibMappingAdd(method_start_address, Unwrap(end_avma),
                                                 relative_address, "jit")]),
              !.symbols = Append(@, [address |-> relative_address,
                                     size |-> Some(method_size),
                                     name |-> method_name])]

\* the events drawn: method start addresses 0x1000, 0x1800 and
\* 0xFFFFFFFFFFFFF000, sizes 0, 0x800, 0x1000 and 0xFFFFF800, each at the
\* time of the event before or TimeStep later
MethodStartAddresses ==
  {W64(0, 0, 0, 4096), W64(0, 0, 0, 6144), W64(65535, 65535, 65535, 61440)}
MethodSizes == {W32(0, 0), W32(0, 2048), W32(0, 4096), W32(65535, 63488)}
TimeStep == 100
TimeSteps == {0, TimeStep}

JitInit ==
  /\ OthersIdle("jit")
  /\ \E overflow_checks \in BOOLEAN : jit = NewProcessJitInfo(overflow_checks)

\* a CLRMethod/MethodLoadVerbose event of the process
MethodLoadVerbose ==
  /\ jit /= Idle /\ ~jit.panicked
  /\ Len(jit.symbols) < MaxJitEvents
  /\ \E method_start_address \in MethodStartAddresses, method_size \in MethodSizes,
        dt \in TimeSteps :
       jit' = MethodLoadVerboseEvent(jit, jit.now + dt, method_start_address,
                                     method_size, "M")
  /\ UNCHANGED notJit

JitNext == MethodLoadVerbose

SpecJit == JitInit /\ [][JitNext]_vars


(***************************************************************************)
(* The lib-mapping ledger (LibMappingOpQueue) and frame resolution, as the *)
(* specification describes them.                                           *)
(***************************************************************************)
LibMappingRemove(start_avma) == [kind |-> "Remove", start_avma |-> start_avma]
LibMappingClear == [kind |-> "Clear"]

\* the mappings after op: a mapping is known by its start_avma
ApplyOp(mappings, op) ==
  IF op.kind = "Clear" THEN {}
  ELSE IF op.kind = "Remove"
  THEN {m \in mappings : m.start_avma /= op.start_avma}
  ELSE {m \in mappings : m.start_avma /= op.start_avma} \cup {op}

RECURSIVE ReconstructFrom(_, _, _, _)
ReconstructFrom(ops, i, timestamp, mappings) ==
  IF i > Len(ops) THEN mappings
  ELSE IF ops[i].timestamp > timestamp THEN mappings
  ELSE ReconstructFrom(ops, i + 1, timestamp, ApplyOp(mappings, ops[i].op))

\* the ledger reconstructed up to timestamp
Reconstruct(ops, timestamp) == ReconstructFrom(ops, 1, timestamp, {})

\* an address lies in both [start, end) ranges
Overlap(m1, m2) ==
  LET start == IF WLess(m1.start_avma, m2.start_avma) THEN m2.start_avma ELSE m1.start_avma
      end == IF WLess(m1.end_avma, m2.end_avma) THEN m1.end_avma ELSE m2.end_avma
  IN  WLess(start, end)

Covering(mappings, avma) ==
  {m \in mappings : WLeq(m.start_avma, avma) /\ WLess(avma, m.end_avma)}

Unmapped == [info |-> "unmapped"]

\* frame resolution of avma at timestamp: a frame of every covering range
Resolve(ops, timestamp, avma) ==
  LET covering == Covering(Reconstruct(ops, timestamp), avma)
  IN  IF covering = {} THEN {Unmapped}
      ELSE {[info |-> m.info,
             relative_address |->
               WAdd(m.relative_address_at_start, AsU32(WSub(avma, m.start_avma))).sum] :
              m \in covering}

\* the LibMapping events drawn: libA at [0x1000, 0x2000), libB at
\* [0x1000, 0x3000), libC at [0x2000, 0x3000), their removal, and Clear
LibMappingOps ==
  {LibMappingAdd(W64(0, 0, 0, 4096), W64(0, 0, 0, 8192), W32(0, 0), "libA"),
   LibMappingAdd(W64(0, 0, 0, 4096), W64(0, 0, 0, 12288), W32(0, 0), "libB"),
   LibMappingAdd(W64(0, 0, 0, 8192), W64(0, 0, 0, 12288), W32(0, 256), "libC"),
   LibMappingRemove(W64(0, 0, 0, 4096)), LibMappingRemove(W64(0, 0, 0, 8192)),
   LibMappingClear}

NewLibMappings == [op |-> "events", now |-> 0, ops |-> <<>>]

LibInit ==
  /\ OthersIdle("lib")
  /\ lib = NewLibMappings

\* a LibMapping event of the process: events come ordered by timestamp, and a
\* range is added where the ledger has none
LibMapping ==
  /\ lib /= Idle
  /\ Len(lib.ops) < MaxLibEvents
  /\ \E op \in LibMappingOps, dt \in TimeSteps :
       /\ op.kind = "Add" =>
            \A m \in Reconstruct(lib.ops, lib.now + dt) : ~Overlap(m, op)
       /\ lib' = [lib EXCEPT !.now = lib.now + dt,
                             !.ops = Append(@, [timestamp |-> lib.now + dt, op |-> op])]
  /\ UNCHANGED notLib

LibNext == LibMapping

SpecLib == LibInit /\ [][LibNext]_vars

(***************************************************************************)
(* src/wholesym/src/symbol_manager.rs: SymbolMap, over the address-lookup  *)
(* engine of samply_symbols as the specification describes it.             *)
(***************************************************************************)
\* the index of the symbol with the greatest address <= address, if any
GreatestAtOrBelow(symbols, address) ==
  LET below == {i \in 1..Len(symbols) : symbols[i].address <= address}
  IN  IF below = {} THEN None
      ELSE Some(CHOOSE i \in below : \A j \in below : symbols[j].address <= symbols[i].address)

\* samply_symbols::SymbolMap::lookup_relative_address: the symbol with the
\* greatest address <= the query, rejected if its size is known and the
\* query is at or past address + size
inner_lookup_relative_address(inner, address) ==
  LET found == GreatestAtOrBelow(inner.symbols, address)
  IN  IF ~IsSome(found) THEN None
      ELSE LET symbol == inner.symbols[Unwrap(found)]
           IN  IF IsSome(symbol.size) /\ address >= symbol.address + Unwrap(symbol.size)
               THEN None
               ELSE Some(symbol)

lookup_relative_address_as_svma(self, address) ==
  IF address < self.inner.image_base THEN None
  ELSE inner_lookup_relative_address(self.inner, address - self.inner.image_base)

\* SymbolMap::lookup_relative_address
lookup_relative_address(self, address) ==
  inner_lookup_relative_address(self.inner, address)

\* the symbol tables drawn: at each address 1..MaxSymAddr no symbol, or one of
\* unknown size or of size 0..MaxSymSize; the list is sorted by address
SymbolSizes == {None} \cup {Some(n) : n \in 0..MaxSymSize}
SymbolChoices ==
  [1..MaxSymAddr -> {[there |-> FALSE, size |-> None]}
                      \cup {[there |-> TRUE, size |-> size] : size \in SymbolSizes}]

RECURSIVE SymbolsFrom(_, _)
SymbolsFrom(choice, a) ==
  IF a > MaxSymAddr THEN <<>>
  ELSE (IF ~choice[a].there THEN <<>>
        ELSE <<[address |-> a, size |-> choice[a].size, name |-> a]>>)
       \o SymbolsFrom(choice, a + 1)

ImageBases == {0, 2}

SymbolMaps ==
  {[inner |-> [symbols |-> SymbolsFrom(choice, 1), image_base |-> base]] :
     choice \in SymbolChoices, base \in ImageBases}

\* the addresses looked up: from below the first symbol to past the end of
\* the last
LookupAddresses == 0..(MaxSymAddr + MaxSymSize + 1)

SymInit ==
  /\ OthersIdle("sym")
  /\ \E self \in SymbolMaps, address \in LookupAddresses :
       symIn = [op |-> "lookup_relative_address", self |-> self, address |-> address]
  /\ symOut = Idle

\* a call of SymbolMap::lookup_relative_address
LookupRelativeAddress ==
  /\ symIn /= Idle /\ symOut = Idle
  /\ symOut' = [op |-> "lookup_relative_address",
                res |-> lookup_relative_address(symIn.self, symIn.address)]
  /\ UNCHANGED <<symIn, notSym>>

SymNext == LookupRelativeAddress

SpecSym == SymInit /\ [][SymNext]_vars

(***************************************************************************)
(* src/samply/src/main.rs: `samply record`, from the command line to the   *)
(* call of the profiler.  Tokens are sequences of characters.              *)
(***************************************************************************)
Digits == {"0", "1", "2", "3", "4", "5", "6", "7", "8", "9"}

TokNoOpen == <<"-", "-", "n", "o", "-", "o", "p", "e", "n">>
TokNoOpenShort == <<"-", "n">>
TokPid == <<"-", "-", "p", "i", "d">>
TokPidShort == <<"-", "p">>
TokEscape == <<"-", "-">>

\* a u32 option value: decimal digits only (the values drawn are short)
IsU32(token) == token /= <<>> /\ \A k \in 1..Len(token) : token[k] \in Digits

\* RecordArgs with the defaults of its #[arg] attributes
DefaultRecordArgs ==
  [rate_positive |-> TRUE, iteration_count |-> 1, save_only |-> FALSE,
   no_open |-> FALSE, profile_name |-> None, command |-> <<>>, pid |-> None]

ParseError(what) == [ok |-> FALSE, error |-> what]

RECURSIVE ParseRecord_options_after_command(_, _, _, _)
ParseRecord_options_after_command(argv, i, args, trailing) ==
  IF i > Len(argv)
  THEN IF IsSome(args.pid) /\ args.command /= <<>> THEN ParseError("ArgumentConflict")
       ELSE IF ~IsSome(args.pid) /\ args.command = <<>>
       THEN ParseError("MissingRequiredArgument")
       ELSE [ok |-> TRUE, record_args |-> args]
  ELSE IF trailing
  THEN ParseRecord_options_after_command(argv, i + 1,
                                         [args EXCEPT !.command = Append(@, argv[i])], TRUE)
  ELSE IF argv[i] = TokEscape
  THEN ParseRecord_options_after_command(argv, i + 1, args, TRUE)
  ELSE IF argv[i] \in {TokNoOpen, TokNoOpenShort}
  THEN IF args.no_open THEN ParseError("ArgumentConflict")
       ELSE ParseRecord_options_after_command(argv, i + 1,
                                              [args EXCEPT !.no_open = TRUE], FALSE)
  ELSE IF argv[i] \in {TokPid, TokPidShort}
  THEN IF IsSome(args.pid) THEN ParseError("ArgumentConflict")
       ELSE IF i = Len(argv) THEN ParseError("InvalidValue")
       ELSE IF ~IsU32(argv[i + 1]) THEN ParseError("InvalidValue")
       ELSE ParseRecord_options_after_command(argv, i + 2,
                                              [args EXCEPT !.pid = Some(argv[i + 1])], FALSE)
  ELSE ParseRecord_options_after_command(argv, i + 1,
                                         [args EXCEPT !.command = Append(@, argv[i])], FALSE)

RECURSIVE ParseRecord(_, _, _, _)
\* Opt::try_parse_from(["samply", "record"] + argv) for the arguments of
\* RecordArgs, from token i on: options are parsed until the first value of
\* command (a positional with trailing_var_arg and allow_hyphen_values), all
\* later tokens are values of command; `--` before it ends the options; pid
\* and command conflict, and one of them is required
ParseRecord(argv, i, args, trailing) ==
  IF i > Len(argv)
  THEN IF IsSome(args.pid) /\ args.command /= <<>> THEN ParseError("ArgumentConflict")
       ELSE IF ~IsSome(args.pid) /\ args.command = <<>>
       THEN ParseError("MissingRequiredArgument")
       ELSE [ok |-> TRUE, record_args |-> args]
  ELSE IF trailing
  THEN ParseRecord(argv, i + 1, [args EXCEPT !.command = Append(@, argv[i])], TRUE)
  ELSE IF argv[i] = TokEscape
  THEN ParseRecord(argv, i + 1, args, TRUE)
  ELSE IF argv[i] \in {TokNoOpen, TokNoOpenShort}
  THEN IF args.no_open THEN ParseError("ArgumentConflict")
       ELSE ParseRecord(argv, i + 1, [args EXCEPT !.no_open = TRUE], FALSE)
  ELSE IF argv[i] \in {TokPid, TokPidShort}
  THEN IF IsSome(args.pid) THEN ParseError("ArgumentConflict")
       ELSE IF i = Len(argv) THEN ParseError("InvalidValue")
       ELSE IF ~IsU32(argv[i + 1]) THEN ParseError("InvalidValue")
       ELSE ParseRecord(argv, i + 2, [args EXCEPT !.pid = Some(argv[i + 1])], FALSE)
  ELSE ParseRecord(argv, i + 1, [args EXCEPT !.command = Append(@, argv[i])], TRUE)

\* a split at the last '='
split_at_last_equals(s) ==
  LET positions == {k \in 1..Len(s) : s[k] = "="}
  IN  IF positions = {} THEN None
      ELSE LET pos == CHOOSE k \in positions : \A j \in positions : k >= j
           IN  Some(<<SubSeq(s, 1, pos - 1), SubSeq(s, pos + 1, Len(s))>>)

\* split_at_first_equals: name and value around the first '=', if there is one
split_at_first_equals(s) ==
  LET positions == {k \in 1..Len(s) : s[k] = "="}
  IN  IF positions = {} THEN None
      ELSE LET pos == CHOOSE k \in positions : \A j \in positions : k <= j
           IN  Some(<<SubSeq(s, 1, pos - 1), SubSeq(s, pos + 1, Len(s))>>)

RECURSIVE EnvVarsFrom(_, _)
\* the while let loop of process_launch_props: the leading items that split
EnvVarsFrom(command, i) ==
  IF i > Len(command) THEN <<>>
  ELSE IF ~IsSome(split_at_first_equals(command[i])) THEN <<>>
  ELSE <<Unwrap(split_at_first_equals(command[i]))>> \o EnvVarsFrom(command, i + 1)

\* RecordArgs::process_launch_props: the props, a panic of the assertion, or
\* exit(1)
process_launch_props(self) ==
  IF self.command = <<>>
  THEN [kind |-> "panic",
        message |-> "CLI parsing should have ensured that we have at least one command name"]
  ELSE LET env_vars == EnvVarsFrom(self.command, 1)
           i == Len(env_vars)
       IN  IF i = Len(self.command) THEN [kind |-> "exit", code |-> 1]
           ELSE [kind |-> "props", env_vars |-> env_vars,
                 command_name |-> self.command[i + 1],
                 args |-> SubSeq(self.command, i + 2, Len(self.command)),
                 iteration_count |-> self.iteration_count]

\* RecordArgs::recording_props: exit(1) unless the rate is positive
recording_props(self) ==
  IF ~self.rate_positive THEN [kind |-> "exit", code |-> 1] ELSE [kind |-> "props"]

\* RecordArgs::profile_creation_props: the profile name
profile_creation_props(self) ==
  IF IsSome(self.profile_name) THEN [kind |-> "props", profile_name |-> Unwrap(self.profile_name)]
  ELSE IF IsSome(self.pid)
  THEN [kind |-> "props", profile_name |-> <<"P", "I", "D", " ">> \o Unwrap(self.pid)]
  ELSE LET launch == process_launch_props(self)
       IN  IF launch.kind /= "props" THEN launch
           ELSE [kind |-> "props", profile_name |-> launch.command_name]

\* main, Action::Record(record_args): what the process comes to
main_record(record_args) ==
  LET process_launch_props_ == process_launch_props(record_args)
      recording_props_ == recording_props(record_args)
      profile_creation_props_ == profile_creation_props(record_args)
  IN  IF process_launch_props_.kind /= "props" THEN process_launch_props_
      ELSE IF recording_props_.kind /= "props" THEN recording_props_
      ELSE IF profile_creation_props_.kind /= "props" THEN profile_creation_props_
      ELSE IF IsSome(record_args.pid)
      THEN [kind |-> "start_profiling_pid", pid |-> Unwrap(record_args.pid)]
      ELSE [kind |-> "start_recording",
            process_launch_props |-> process_launch_props_]

\* main for `samply record argv`: a usage error of the parser, or the run
main(argv) ==
  LET opt == ParseRecord(argv, 1, DefaultRecordArgs, FALSE)
  IN  IF ~opt.ok THEN [parsed |-> opt, outcome |-> [kind |-> "usage error"]]
      ELSE [parsed |-> opt, outcome |-> main_record(opt.record_args)]

\* the tokens drawn: a command name, an argument, an environment variable, a
\* pid, and the options --no-open, -p and --
CliTokens ==
  {<<"l", "s">>, <<"x">>, <<"A", "=", "b">>, <<"1", "2">>, TokNoOpen, TokPidShort,
   TokEscape}

CliArgvs == UNION {[1..n -> CliTokens] : n \in 0..MaxArgs}

\* what profiler::start_recording returns: an exit status with or without a
\* code, or an error
ChildExitCodes == {0, 3}
StartRecordingResults ==
  {[ok |-> TRUE, code |-> Some(c)] : c \in ChildExitCodes}
    \cup {[ok |-> TRUE, code |-> None], [ok |-> FALSE]}

\* std::process::exit(code); a panic of the main thread; main returning
Exit(code) == [kind |-> "exit", code |-> code]
Panic(message) == [kind |-> "panic", message |-> message]
Returned == [kind |-> "returned"]

\* the process ended and the status seen by its parent is not 0
NonZeroTermination(status) ==
  \/ status.kind = "panic"
  \/ status.kind = "exit" /\ status.code /= 0

\* main, Action::Record after the props: how the process ends, given what
\* the profiler returns
record_status(outcome, recording) ==
  IF outcome.kind = "usage error" THEN Exit(2)
  ELSE IF outcome.kind = "panic" THEN Panic(outcome.message)
  ELSE IF outcome.kind = "exit" THEN Exit(outcome.code)
  ELSE IF outcome.kind = "start_profiling_pid" THEN Returned
  ELSE IF recording.ok
  THEN Exit(IF IsSome(recording.code) THEN Unwrap(recording.code) ELSE 0)
  ELSE Exit(1)

\* main, Action::Import on Windows: the file is handed to start_recording
import_windows_status(recording) ==
  IF recording.ok
  THEN Exit(IF IsSome(recording.code) THEN Unwrap(recording.code) ELSE 0)
  ELSE Exit(1)

\* File::write_all of n bytes to a file that takes `room` bytes in all
FileWrite(file, n) ==
  IF file.written + n <= file.room
  THEN [file EXCEPT !.written = @ + n]
  ELSE [file EXCEPT !.written = file.room, !.failed = TRUE]

RECURSIVE BufWriterWrite(_, _)
\* BufWriter::write of `left` one-byte pieces: a piece that does not fit
\* flushes the buffer first; the first error ends the serialization
BufWriterWrite(w, left) ==
  IF left = 0 THEN w
  ELSE IF w.buffered + 1 > BufCapacity
  THEN LET file == FileWrite(w.file, w.buffered)
       IN  IF file.failed THEN [w EXCEPT !.file = file, !.error = TRUE]
           ELSE BufWriterWrite([w EXCEPT !.file = file, !.buffered = 1], left - 1)
  ELSE BufWriterWrite([w EXCEPT !.buffered = @ + 1], left - 1)

\* serde_json::to_writer(BufWriter::new(output_file), &profile): the writer
\* is moved in and dropped on return; the drop flushes what is buffered and
\* ignores the result
to_writer(profile_len, room) ==
  LET writer == [file |-> [written |-> 0, room |-> room, failed |-> FALSE],
                 buffered |-> 0, error |-> FALSE]
      w == BufWriterWrite(writer, profile_len)
  IN  IF w.error THEN [ok |-> FALSE, written |-> w.file.written]
      ELSE [ok |-> TRUE, written |-> FileWrite(w.file, w.buffered).written]

\* convert_perf_file_to_profile: the bytes of the output file, or the end of
\* the process
convert_perf_file_to_profile(env) ==
  IF ~env.canonicalize_ok THEN Panic("Couldn't form absolute path")
  ELSE IF ~env.convert_ok THEN Exit(1)
  ELSE IF ~env.create_ok THEN Exit(1)
  ELSE LET res == to_writer(env.profile_len, env.room)
       IN  IF ~res.ok THEN Panic("Couldn't write converted profile JSON")
           ELSE [kind |-> "written", written |-> res.written]

\* main, Action::Import on Linux
import_linux_status(env) ==
  IF ~env.open_ok THEN Exit(1)
  ELSE LET converted == convert_perf_file_to_profile(env)
       IN  IF converted.kind /= "written" THEN converted
           ELSE IF env.save_only THEN Returned
           ELSE IF converted.written /= env.profile_len
           THEN Panic("Couldn't parse libinfo map from profile file")
           ELSE [kind |-> "start_server_main"]

\* the file system and the perf data met by `samply import`
ImportEnvs ==
  [open_ok : BOOLEAN, canonicalize_ok : BOOLEAN, convert_ok : BOOLEAN,
   create_ok : BOOLEAN, save_only : BOOLEAN,
   profile_len : 1..MaxProfileLen, room : 0..MaxProfileLen]

\* the items of the command vectors handed to process_launch_props
LaunchItems ==
  {<<"l", "s">>, <<"x">>, <<"A", "=", "b">>, <<"a", "=", "b", "=", "c">>, <<"=">>}

CliInit ==
  /\ OthersIdle("cli")
  /\ \/ \E command \in SeqsUpTo(LaunchItems, MaxArgs) :
           cliIn = [op |-> "process_launch_props",
                    self |-> [DefaultRecordArgs EXCEPT !.command = command]]
     \/ \E argv \in CliArgvs, recording \in StartRecordingResults :
           cliIn = [op |-> "record", argv |-> argv, recording |-> recording]
     \/ \E recording \in StartRecordingResults :
           cliIn = [op |-> "import", target_os |-> "windows", recording |-> recording]
     \/ \E env \in ImportEnvs :
           cliIn = [op |-> "import", target_os |-> "linux", env |-> env]
  /\ cliOut = Idle

\* a run of `samply record argv`
RunRecord ==
  /\ cliIn /= Idle /\ cliIn.op = "record" /\ cliOut = Idle
  /\ cliOut' = [op |-> "record", res |-> main(cliIn.argv),
                status |-> record_status(main(cliIn.argv).outcome, cliIn.recording)]
  /\ UNCHANGED <<cliIn, notCli>>

\* a run of `samply import file`
RunImport ==
  /\ cliIn /= Idle /\ cliIn.op = "import" /\ cliOut = Idle
  /\ cliOut' = [op |-> "import",
                status |-> IF cliIn.target_os = "windows"
                           THEN import_windows_status(cliIn.recording)
                           ELSE import_linux_status(cliIn.env)]
  /\ UNCHANGED <<cliIn, notCli>>

\* a call of RecordArgs::process_launch_props
ProcessLaunchProps ==
  /\ cliIn /= Idle /\ cliIn.op = "process_launch_props" /\ cliOut = Idle
  /\ cliOut' = [op |-> "process_launch_props", res |-> process_launch_props(cliIn.self)]
  /\ UNCHANGED <<cliIn, notCli>>

CliNext == RunRecord \/ RunImport \/ ProcessLaunchProps

SpecCli == CliInit /\ [][CliNext]_vars

(***************************************************************************)
(* src/etw-reader/src/parser.rs: the Parser of the properties of one ETW   *)
(* event.  Bytes are 0..255; an integer value is the sequence of its bytes,*)
(* least significant first.  Indices of properties count from 0.           *)
(***************************************************************************)
ParserOk(value) == [kind |-> "Ok", value |-> value]
ParserErr(error) == [kind |-> "Err", error |-> error]
ParserPanic == [kind |-> "panic"]
PropertyError(message) == [error |-> "PropertyError", message |-> message]

\* the size of a pointer of the traced process
PointerSize(event) == IF event.flag_32_bit_header THEN 4 ELSE 8

Least(S) == CHOOSE k \in S : \A j \in S : k <= j

\* utils::parse_unk_size_null_unicode_vec(buffer).len(): the 16-bit units
\* before the first null unit, and the terminator
parse_unk_size_null_unicode_vec_len(buffer) ==
  LET nulls == {k \in 1..(Len(buffer) \div 2) :
                  buffer[2 * k - 1] = 0 /\ buffer[2 * k] = 0}
  IN  IF nulls = {} THEN (Len(buffer) \div 2) + 1 ELSE Least(nulls)

\* utils::parse_unk_size_null_ansi_vec(buffer).len(): the bytes before the
\* first null byte, and the terminator
parse_unk_size_null_ansi_vec_len(buffer) ==
  LET nulls == {k \in 1..Len(buffer) : buffer[k] = 0}
  IN  IF nulls = {} THEN Len(buffer) + 1 ELSE Least(nulls)

\* tdh::property_size(record, name).unwrap()
tdh_property_size(event) ==
  IF IsSome(event.tdh_size) THEN ParserOk(Unwrap(event.tdh_size)) ELSE ParserPanic

\* Parser::find_property_size
find_property_size(self, property) ==
  IF "PROPERTY_PARAM_LENGTH" \in property.flags /\ property.len > 0
  THEN ParserOk(IF property.in_type = "InTypePointer" THEN PointerSize(self.event)
                ELSE property.len)
  ELSE IF property.flags = {} /\ property.len > 0 /\ property.count = 1
  THEN ParserOk(property.len)
  ELSE IF property.count = 1 /\ property.in_type \in {"InTypeInt32", "InTypeUInt32"}
  THEN ParserOk(4)
  ELSE IF property.count = 1 /\ property.in_type \in {"InTypeInt64", "InTypeUInt64"}
  THEN ParserOk(8)
  ELSE IF property.count = 1 /\ property.in_type \in {"InTypeInt8", "InTypeUInt8"}
  THEN ParserOk(1)
  ELSE IF property.count = 1 /\ property.in_type = "InTypePointer"
  THEN ParserOk(PointerSize(self.event))
  ELSE IF property.count = 1 /\ property.in_type = "InTypeGuid"
  THEN ParserOk(16)
  ELSE IF property.count = 1 /\ property.in_type = "InTypeUnicodeString"
  THEN ParserOk(parse_unk_size_null_unicode_vec_len(self.buffer) * 2)
  ELSE IF property.count = 1 /\ property.in_type = "InTypeAnsiString"
  THEN ParserOk(parse_unk_size_null_ansi_vec_len(self.buffer))
  ELSE tdh_property_size(self.event)

\* PropertyInfo::create
PropertyInfo(property, offset, buffer) ==
  [property |-> property, offset |-> offset, buffer |-> buffer]

\* Parser::create
ParserCreate(event) ==
  [event |-> event, buffer |-> event.user_buffer, offset |-> 0, cache |-> <<>>]

\* properties.name_to_indx.get(name)
name_to_indx(self, name) ==
  LET found == {i \in 0..(Len(self.event.schema) - 1) : self.event.schema[i + 1].name = name}
  IN  IF found = {} THEN None ELSE Some(Least(found))

RECURSIVE FindPropertyLoop(_, _, _)
\* the loop of find_property over i in cache.len()..=indx
FindPropertyLoop(self, i, indx) ==
  IF i > indx THEN [parser |-> self, res |-> ParserOk(indx)]
  ELSE LET curr_prop == self.event.schema[i + 1]
           prop_size == find_property_size(self, curr_prop)
       IN  IF prop_size.kind = "panic" THEN [parser |-> self, res |-> ParserPanic]
           ELSE IF Len(self.buffer) < prop_size.value
           THEN [parser |-> self,
                 res |-> ParserErr(PropertyError("Property length out of buffer bounds"))]
           ELSE FindPropertyLoop(
                  [self EXCEPT
                     !.buffer = SubSeq(self.buffer, prop_size.value + 1, Len(self.buffer)),
                     !.cache = Append(self.cache,
                                      PropertyInfo(curr_prop, self.offset,
                                                   SubSeq(self.buffer, 1, prop_size.value))),
                     !.offset = self.offset + prop_size.value],
                  i + 1, indx)

\* a find_property that leaves the offset where it was
find_property_offset_not_advanced(self, name) ==
  LET indx == name_to_indx(self, name)
  IN  IF ~IsSome(indx)
      THEN [parser |-> self, res |-> ParserErr(PropertyError("Unknown property"))]
      ELSE IF Unwrap(indx) < Len(self.cache)
      THEN [parser |-> self, res |-> ParserOk(Unwrap(indx))]
      ELSE LET found == FindPropertyLoop(self, Len(self.cache), Unwrap(indx))
           IN  [found EXCEPT !.parser.offset = self.offset]

\* a find_property that reads a cached property from the buffer again
find_property_reading_again(self, name) ==
  LET indx == name_to_indx(self, name)
  IN  IF ~IsSome(indx)
      THEN [parser |-> self, res |-> ParserErr(PropertyError("Unknown property"))]
      ELSE IF Unwrap(indx) < Len(self.cache)
      THEN FindPropertyLoop(self, Unwrap(indx), Unwrap(indx))
      ELSE FindPropertyLoop(self, Len(self.cache), Unwrap(indx))

\* a find_property that forgets the properties of a failed call
find_property_rolling_back(self, name) ==
  LET indx == name_to_indx(self, name)
  IN  IF ~IsSome(indx)
      THEN [parser |-> self, res |-> ParserErr(PropertyError("Unknown property"))]
      ELSE IF Unwrap(indx) < Len(self.cache)
      THEN [parser |-> self, res |-> ParserOk(Unwrap(indx))]
      ELSE LET found == FindPropertyLoop(self, Len(self.cache), Unwrap(indx))
           IN  IF found.res.kind = "Err" THEN [found EXCEPT !.parser = self] ELSE found

\* Parser::find_property: the parser after the call and the value returned
find_property(self, name) ==
  LET indx == name_to_indx(self, name)
  IN  IF ~IsSome(indx)
      THEN [parser |-> self, res |-> ParserErr(PropertyError("Unknown property"))]
      ELSE IF Unwrap(indx) < Len(self.cache)
      THEN [parser |-> self, res |-> ParserOk(Unwrap(indx))]
      ELSE FindPropertyLoop(self, Len(self.cache), Unwrap(indx))

\* $T::from_ne_bytes(buffer) as u64: the bytes, zero-extended to 8
AsU64Bytes(bytes) == bytes \o [k \in 1..(8 - Len(bytes)) |-> 0]

\* impl_try_parse_primitive!(u32, InTypeUInt32)
try_parse_u32(self, name) ==
  LET found == find_property(self, name)
  IN  IF found.res.kind /= "Ok" THEN found
      ELSE LET prop_info == found.parser.cache[found.res.value + 1]
           IN  IF prop_info.property.in_type /= "InTypeUInt32"
               THEN [found EXCEPT !.res = ParserErr([error |-> "InvalidType"])]
               ELSE IF 4 /= Len(prop_info.buffer)
               THEN [found EXCEPT !.res = ParserErr([error |-> "LengthMismatch"])]
               ELSE [found EXCEPT !.res = ParserOk(prop_info.buffer)]

\* impl TryParse<u64> for Parser
try_parse_u64(self, name) ==
  LET found == find_property(self, name)
  IN  IF found.res.kind /= "Ok" THEN found
      ELSE LET prop_info == found.parser.cache[found.res.value + 1]
           IN  IF prop_info.property.in_type = "InTypeUInt64"
               THEN IF 8 /= Len(prop_info.buffer)
                    THEN [found EXCEPT !.res = ParserErr([error |-> "LengthMismatch"])]
                    ELSE [found EXCEPT !.res = ParserOk(prop_info.buffer)]
               ELSE IF prop_info.property.in_type = "InTypePointer"
               THEN IF self.event.flag_32_bit_header
                    THEN IF 4 /= Len(prop_info.buffer)
                         THEN [found EXCEPT !.res = ParserErr([error |-> "LengthMismatch"])]
                         ELSE [found EXCEPT !.res = ParserOk(AsU64Bytes(prop_info.buffer))]
                    ELSE IF 8 /= Len(prop_info.buffer)
                    THEN [found EXCEPT !.res = ParserErr([error |-> "LengthMismatch"])]
                    ELSE [found EXCEPT !.res = ParserOk(prop_info.buffer)]
               ELSE [found EXCEPT !.res = ParserErr([error |-> "InvalidType"])]

\* utils::parse_null_utf16_string: the units before the first null unit
parse_null_utf16_string(buffer) ==
  LET units == [k \in 1..(Len(buffer) \div 2) |-> <<buffer[2 * k - 1], buffer[2 * k]>>]
      nulls == {k \in 1..Len(units) : units[k] = <<0, 0>>}
  IN  IF nulls = {} THEN units ELSE SubSeq(units, 1, Least(nulls) - 1)

\* String::from_utf8 accepts the bytes (the bytes drawn are ASCII or 255)
IsUtf8(bytes) == \A k \in 1..Len(bytes) : bytes[k] < 128

RECURSIVE TrimNulStart(_)
TrimNulStart(bytes) ==
  IF bytes /= <<>> /\ Head(bytes) = 0 THEN TrimNulStart(Tail(bytes)) ELSE bytes

RECURSIVE TrimNulEnd(_)
TrimNulEnd(bytes) ==
  IF bytes /= <<>> /\ bytes[Len(bytes)] = 0
  THEN TrimNulEnd(SubSeq(bytes, 1, Len(bytes) - 1)) ELSE bytes

\* str::trim_matches(char::default())
trim_matches_nul(bytes) == TrimNulEnd(TrimNulStart(bytes))

\* impl TryParse<String> for Parser
try_parse_String(self, name) ==
  LET found == find_property(self, name)
  IN  IF found.res.kind /= "Ok" THEN found
      ELSE LET prop_info == found.parser.cache[found.res.value + 1]
               in_type == prop_info.property.in_type
           IN  IF in_type = "InTypeUnicodeString"
               THEN [found EXCEPT !.res = ParserOk(parse_null_utf16_string(prop_info.buffer))]
               ELSE IF in_type = "InTypeAnsiString"
               THEN IF ~IsUtf8(prop_info.buffer)
                    THEN [found EXCEPT !.res = ParserErr([error |-> "Utf8Error"])]
                    ELSE [found EXCEPT !.res = ParserOk(trim_matches_nul(prop_info.buffer))]
               ELSE IF in_type = "InTypeSid"
               THEN [found EXCEPT !.res = ParserPanic]
               ELSE IF in_type = "InTypeCountedString"
               THEN [found EXCEPT !.res = ParserPanic]
               ELSE [found EXCEPT !.res = ParserErr([error |-> "InvalidType"])]

\* impl TryParse<Pointer> for Parser
try_parse_Pointer(self, name) ==
  LET found == find_property(self, name)
  IN  IF found.res.kind /= "Ok" THEN found
      ELSE LET prop_info == found.parser.cache[found.res.value + 1]
           IN  IF Len(prop_info.buffer) = 4
               THEN LET parsed == try_parse_u32(found.parser, name)
                    IN  IF parsed.res.kind /= "Ok" THEN parsed
                        ELSE [parsed EXCEPT !.res = ParserOk(AsU64Bytes(parsed.res.value))]
               ELSE try_parse_u64(found.parser, name)

ParsedTypes == {"String", "u32", "u64", "Pointer"}

\* TryParse<T>::try_parse
try_parse(self, T, name) ==
  IF T = "String" THEN try_parse_String(self, name)
  ELSE IF T = "u32" THEN try_parse_u32(self, name)
  ELSE IF T = "u64" THEN try_parse_u64(self, name)
  ELSE try_parse_Pointer(self, name)

\* the properties drawn: an in-type with its flags, length and count in the
\* schema, and the bytes of a value (a pointer is cut to the pointer size)
EtwFields ==
  {[in_type |-> "InTypeUInt32", flags |-> {}, len |-> 0, count |-> 1,
    data |-> <<1, 2, 3, 4>>],
   [in_type |-> "InTypePointer", flags |-> {}, len |-> 0, count |-> 1,
    data |-> <<9, 8, 7, 6, 5, 4, 3, 2>>],
   [in_type |-> "InTypeUnicodeString", flags |-> {}, len |-> 0, count |-> 1,
    data |-> <<97, 0, 0, 0>>]}

\* and, in schemas of one property,
EtwLoneFields ==
  {[in_type |-> "InTypeAnsiString", flags |-> {}, len |-> 0, count |-> 1,
    data |-> <<97, 0>>],
   [in_type |-> "InTypeGuid", flags |-> {}, len |-> 0, count |-> 1,
    data |-> [k \in 1..16 |-> k]],
   [in_type |-> "InTypeCountedString", flags |-> {}, len |-> 0, count |-> 1,
    data |-> <<1, 0, 97>>]}

\* the name of schema property i, and a name that is in no schema
PropertyName(i) == <<"P", i>>
UnknownName == <<"Unknown">>

FieldData(field, flag_32_bit_header) ==
  IF field.in_type = "InTypePointer"
  THEN SubSeq(field.data, 1, IF flag_32_bit_header THEN 4 ELSE 8)
  ELSE field.data

RECURSIVE UserData(_, _)
UserData(fields, flag_32_bit_header) ==
  IF fields = <<>> THEN <<>>
  ELSE FieldData(Head(fields), flag_32_bit_header) \o UserData(Tail(fields), flag_32_bit_header)

\* the user buffer holds the values exactly, lacks its last byte, or has one
\* byte more; TdhGetPropertySize answers with the size of the counted
\* string or fails
EtwShapes == {"exact", "short", "long", "tdh error"}

\* a TypedEvent: its schema, user buffer and header flag
TypedEvent(fields, flag_32_bit_header, shape) ==
  LET data == UserData(fields, flag_32_bit_header)
  IN  [schema |-> [i \in 1..Len(fields) |->
                     [name |-> PropertyName(i - 1), in_type |-> fields[i].in_type,
                      flags |-> fields[i].flags, len |-> fields[i].len,
                      count |-> fields[i].count]],
       user_buffer |-> IF shape = "short" THEN SubSeq(data, 1, Len(data) - 1)
                       ELSE IF shape = "long" THEN Append(data, 0)
                       ELSE data,
       flag_32_bit_header |-> flag_32_bit_header,
       tdh_size |-> IF shape = "tdh error" THEN None ELSE Some(3)]

TypedEvents ==
  {TypedEvent(fields, flag, shape) :
     fields \in (SeqsUpTo(EtwFields, MaxProps) \ {<<>>})
                  \cup {<<field>> : field \in EtwLoneFields},
     flag \in BOOLEAN, shape \in EtwShapes}

PropertyNames(event) == {event.schema[i].name : i \in 1..Len(event.schema)} \cup {UnknownName}

EtwInit ==
  /\ OthersIdle("etw")
  /\ \E event \in TypedEvents :
       etw = [op |-> "parser", parser |-> ParserCreate(event), last |-> None]

\* a call of try_parse::<T>(name) on the parser; a panic ends the handling
\* of the event
TryParse ==
  /\ etw /= Idle
  /\ ~(IsSome(etw.last) /\ Unwrap(etw.last).res.kind = "panic")
  /\ \E T \in ParsedTypes, name \in PropertyNames(etw.parser.event) :
       LET parsed == try_parse(etw.parser, T, name)
       IN  etw' = [etw EXCEPT !.parser = parsed.parser,
                              !.last = Some([T |-> T, name |-> name, res |-> parsed.res,
                                             before |-> etw.parser])]
  /\ UNCHANGED notEtw

EtwNext == TryParse

SpecEtw == EtwInit /\ [][EtwNext]_vars

(***************************************************************************)
(* src/wholesym/src/symbol_manager.rs: library_info_for_binary_at_path.    *)
(* A path is a sequence of characters.                                     *)
(***************************************************************************)
RECURSIVE SplitAtSlashes(_, _)
\* the pieces of a path between its separators, `current` being the piece
\* read so far
SplitAtSlashes(path, current) ==
  IF path = <<>> THEN <<current>>
  ELSE IF Head(path) = "/" THEN <<current>> \o SplitAtSlashes(Tail(path), <<>>)
  ELSE SplitAtSlashes(Tail(path), Append(current, Head(path)))

\* Path::components on Unix: the root, then the pieces that are neither
\* empty nor `.` (a leading `.` of a relative path is kept)
Components(path) ==
  LET has_root == path /= <<>> /\ Head(path) = "/"
      pieces == SplitAtSlashes(path, <<>>)
      kept == SelectSeq([k \in 1..Len(pieces) |-> [piece |-> pieces[k], first |-> k = 1]],
                        LAMBDA x : /\ x.piece /= <<>>
                                   /\ (x.piece = <<".">> => (x.first /\ ~has_root)))
  IN  (IF has_root THEN <<"RootDir">> ELSE <<>>) \o [k \in 1..Len(kept) |-> kept[k].piece]

\* Path::starts_with: the components of base are the first components of path
starts_with(path, base) ==
  LET p == Components(path)
      b == Components(base)
  IN  Len(b) <= Len(p) /\ SubSeq(p, 1, Len(b)) = b

\* str::starts_with, the comparison of characters
str_starts_with(path, base) ==
  Len(base) <= Len(path) /\ SubSeq(path, 1, Len(base)) = base

PathUsr == <<"/", "u", "s", "r", "/">>
PathSystem == <<"/", "S", "y", "s", "t", "e", "m", "/">>

\* a variant that tries the dyld shared cache after any error
library_info_for_binary_at_path_any_error(path, binary_res, dyld_res) ==
  LET might_be_in_dyld_shared_cache ==
        starts_with(path, PathUsr) \/ starts_with(path, PathSystem)
  IN  IF binary_res.ok
      THEN [dyld_attempted |-> FALSE,
            res |-> [ok |-> TRUE, library_info |-> binary_res.binary]]
      ELSE IF might_be_in_dyld_shared_cache
      THEN IF dyld_res.ok
           THEN [dyld_attempted |-> TRUE,
                 res |-> [ok |-> TRUE, library_info |-> dyld_res.binary]]
           ELSE [dyld_attempted |-> TRUE, res |-> dyld_res]
      ELSE [dyld_attempted |-> FALSE, res |-> binary_res]

\* SymbolManager::library_info_for_binary_at_path, given what
\* load_binary_at_location and load_binary_for_dyld_cache_image return
library_info_for_binary_at_path(path, binary_res, dyld_res) ==
  LET might_be_in_dyld_shared_cache ==
        starts_with(path, PathUsr) \/ starts_with(path, PathSystem)
  IN  IF binary_res.ok
      THEN [dyld_attempted |-> FALSE,
            res |-> [ok |-> TRUE, library_info |-> binary_res.binary]]
      ELSE IF binary_res.error = "HelperErrorDuringOpenFile" /\ might_be_in_dyld_shared_cache
      THEN IF dyld_res.ok
           THEN [dyld_attempted |-> TRUE,
                 res |-> [ok |-> TRUE, library_info |-> dyld_res.binary]]
           ELSE [dyld_attempted |-> TRUE, res |-> dyld_res]
      ELSE [dyld_attempted |-> FALSE, res |-> binary_res]

\* the paths drawn
BinaryPaths ==
  {<<"/", "u", "s", "r", "/", "l", "i", "b", "/", "x">>,
   <<"/", "S", "y", "s", "t", "e", "m", "/", "y">>,
   <<"/", "u", "s", "r">>,
   <<"/", "/", "u", "s", "r", "/", "x">>,
   <<"/", ".", "/", "u", "s", "r", "/", "x">>,
   <<"/", "u", "s", "r", "x", "/", "y">>,
   <<"/", "o", "p", "t", "/", "u", "s", "r", "/", "x">>,
   <<"u", "s", "r", "/", "x">>}

\* what the load of the local file returns
LocalResults ==
  {[ok |-> TRUE, binary |-> "local binary"],
   [ok |-> FALSE, error |-> "HelperErrorDuringOpenFile"],
   [ok |-> FALSE, error |-> "HelperErrorDuringFileReading"],
   [ok |-> FALSE, error |-> "InvalidInputError"]}

\* what the load of the dyld cache image returns
DyldResults ==
  {[ok |-> TRUE, binary |-> "dyld cache image"],
   [ok |-> FALSE, error |-> "NoMatchingDyldCacheImagePath"],
   [ok |-> FALSE, error |-> "HelperErrorDuringOpenFile"]}

DyldInit ==
  /\ OthersIdle("dyld")
  /\ \E path \in BinaryPaths, binary_res \in LocalResults, dyld_res \in DyldResults :
       dyld = [op |-> "call", path |-> path, binary_res |-> binary_res,
               dyld_res |-> dyld_res, out |-> None]

\* a call of library_info_for_binary_at_path
LibraryInfoForBinaryAtPath ==
  /\ dyld /= Idle /\ dyld.out = None
  /\ dyld' = [dyld EXCEPT !.out = Some(library_info_for_binary_at_path(
                                          dyld.path, dyld.binary_res, dyld.dyld_res))]
  /\ UNCHANGED notDyld

DyldNext == LibraryInfoForBinaryAtPath

SpecDyld == DyldInit /\ [][DyldNext]_vars

(***************************************************************************)
(* src/samply/src/windows/coreclr.rs: handle_coreclr_event on the profile  *)
(* context: the processes known, the JIT info of the processes, and the    *)
(* markers of the profile.                                                 *)
(***************************************************************************)
ProcessIds == {1, 2}

\* context.ensure_process_jit_info(process_id): the JIT info of the process
\* is made if there is none
ensure_process_jit_info(context, process_id) ==
  IF IsSome(context.process_jit_infos[process_id]) THEN context
  ELSE [context EXCEPT !.process_jit_infos[process_id] =
                          Some(NewProcessJitInfo(context.overflow_checks))]

\* context.get_process(process_id)
get_process(context, process_id) == context.processes[process_id]

JitFunctionAddMarker(main_thread, method_name) ==
  [thread |-> main_thread, name |-> "JitFunctionAdd", method_name |-> method_name]

\* handle_coreclr_event: the context after the event s; a panic stops the
\* handling where it happens
handle_coreclr_event(context, s) ==
  IF ~s.dotnet_runtime THEN [context EXCEPT !.panicked = TRUE]
  ELSE IF s.name = "CLRMethod/MethodLoadVerbose"
  THEN LET ensured == ensure_process_jit_info(context, s.process_id)
           process == get_process(ensured, s.process_id)
       IN  IF ~IsSome(process) THEN ensured
           ELSE IF ~s.parse_ok THEN [ensured EXCEPT !.panicked = TRUE]
           ELSE LET process_jit_info == Unwrap(ensured.process_jit_infos[s.process_id])
                    bumped == checked_add(process_jit_info.next_relative_address,
                                          s.method_size, ensured.overflow_checks)
                    after == MethodLoadVerboseEvent(process_jit_info, s.timestamp_raw,
                                                    s.method_start_address, s.method_size,
                                                    s.method_name)
                    main_thread_handle == Unwrap(process).main_thread_handle
                IN  [ensured EXCEPT
                       !.process_jit_infos[s.process_id] = Some(after),
                       !.markers = IF IsSome(bumped) /\ IsSome(main_thread_handle)
                                   THEN Append(@, JitFunctionAddMarker(
                                                    Unwrap(main_thread_handle), s.method_name))
                                   ELSE @,
                       !.panicked = after.panicked]
  ELSE context

\* the names of the events drawn, after "Microsoft-Windows-DotNETRuntime/"
DotNetEventNames ==
  {"CLRMethod/MethodLoadVerbose", "CLRMethod/MethodJittingStarted",
   "CLRMethod/R2RGetEntryPoint", "CLRMethod/ModuleLoad", "CLRMethod/ModuleUnload",
   "Type/BulkType", "CLRStack/CLRStackWalk", "GarbageCollection/Start"}

\* the events drawn: of the .NET runtime provider or not, for either
\* process, with properties that parse or do not, a method at 0x1000 or at
\* 0xFFFFFFFFFFFFF000 of size 0x1000 or 0xFFFFF800
CoreClrEvents ==
  [dotnet_runtime : BOOLEAN, name : DotNetEventNames, process_id : ProcessIds,
   parse_ok : BOOLEAN, timestamp_raw : {TimeStep},
   method_start_address : {W64(0, 0, 0, 4096), W64(65535, 65535, 65535, 61440)},
   method_size : {W32(0, 4096), W32(65535, 63488)}, method_name : {"M"}]

\* a process of the context: unknown, or known with or without a main thread
ProcessStates == {None, Some([main_thread_handle |-> None]),
                  Some([main_thread_handle |-> Some("main thread")])}

CtxInit ==
  /\ OthersIdle("ctx")
  /\ \E overflow_checks \in BOOLEAN, processes \in [ProcessIds -> ProcessStates] :
       ctx = [op |-> "events", overflow_checks |-> overflow_checks, panicked |-> FALSE,
              processes |-> processes,
              process_jit_infos |-> [pid \in ProcessIds |-> None],
              markers |-> <<>>]

\* the symbols of all processes
JitSymbolCount(context) ==
  LET count(pid) == IF IsSome(context.process_jit_infos[pid])
                    THEN Len(Unwrap(context.process_jit_infos[pid]).symbols) ELSE 0
  IN  count(1) + count(2)

\* an event of the .NET runtime provider comes to handle_coreclr_event
HandleCoreClrEvent ==
  /\ ctx /= Idle /\ ~ctx.panicked
  /\ JitSymbolCount(ctx) < MaxCtxEvents
  /\ \E s \in CoreClrEvents : ctx' = handle_coreclr_event(ctx, s)
  /\ UNCHANGED notCtx

CtxNext == HandleCoreClrEvent

SpecCtx == CtxInit /\ [][CtxNext]_vars

\* the calls and events of all components
Init ==
  \/ ElfInit \/ PdbInit \/ JitInit \/ LibInit \/ SymInit \/ CliInit
  \/ EtwInit \/ DyldInit \/ CtxInit
Next ==
  \/ ElfNext \/ PdbNext \/ JitNext \/ LibNext \/ SymNext \/ CliNext
  \/ EtwNext \/ DyldNext \/ CtxNext
Spec == Init /\ [][Next]_vars

(***************************************************************************)
(* Properties of the ELF debug id.                                         *)
(***************************************************************************)
\* byte j (from 0) of the identifier cut or zero-padded to 16 bytes
PaddedByte(identifier, j) == IF j < Len(identifier) THEN identifier[j + 1] ELSE 0

\* where byte j of the flipped id comes from: fields 0..4, 4..6, 6..8 reversed
FieldSource(j) ==
  IF j < 4 THEN 3 - j ELSE IF j < 6 THEN 9 - j ELSE IF j < 8 THEN 13 - j ELSE j

\* byte j (from 0) of the id the claims expect for an identifier
ExpectedIdByte(identifier, little_endian, j) ==
  PaddedByte(identifier, IF little_endian THEN FieldSource(j) ELSE j)

ExpectedId(identifier, little_endian) ==
  [j \in 1..UUID_SIZE |-> ExpectedIdByte(identifier, little_endian, j - 1)]

IsUpperDigit(c) == \E k \in 1..16 : UpperDigits[k] = c
UpperDigitValue(c) == (CHOOSE k \in 1..16 : UpperDigits[k] = c) - 1

\* s is the bytes of id as 32 uppercase hexadecimal digits followed by "0"
IsDebugIdStringOf(s, id) ==
  /\ Len(s) = (2 * UUID_SIZE) + 1
  /\ s[(2 * UUID_SIZE) + 1] = "0"
  /\ \A j \in 0..(UUID_SIZE - 1) :
       /\ IsUpperDigit(s[(2 * j) + 1]) /\ IsUpperDigit(s[(2 * j) + 2])
       /\ (16 * UpperDigitValue(s[(2 * j) + 1])) + UpperDigitValue(s[(2 * j) + 2])
            = id[j + 1]

\* C1: create_elf_id yields the first 16 identifier bytes (zero-padded on the
\* right, truncated when longer) with bytes 0..4, 4..6 and 6..8 reversed iff
\* the ELF is little-endian and bytes 8..16 unchanged; the debug id string of a
\* file with a build-id is those bytes as 32 uppercase hex digits and then "0".
C1_CreateElfId ==
  /\ elfOut.op = "create_elf_id" =>
       /\ Len(elfOut.uuid) = UUID_SIZE
       /\ \A j \in 0..(UUID_SIZE - 1) :
            /\ elfOut.uuid[j + 1]
                 = ExpectedIdByte(elfIn.identifier, elfIn.little_endian, j)
            /\ j >= 8 => elfOut.uuid[j + 1] = PaddedByte(elfIn.identifier, j)
  /\ (/\ elfOut.op = "get_symbolication_result"
      /\ elfIn.file.parses
      /\ elfIn.file.build_id.res = "Some") =>
       /\ IsSome(elfOut.res.id_string)
       /\ IsDebugIdStringOf(Unwrap(elfOut.res.id_string),
                            ExpectedId(elfIn.file.build_id.val,
                                       elfIn.file.little_endian))

\* a little-endian file with a build-id shorter than 16 bytes was symbolicated
C1_Witness ==
  /\ elfOut.op = "get_symbolication_result"
  /\ elfIn.file.parses
  /\ elfIn.file.build_id.res = "Some"
  /\ Len(elfIn.file.build_id.val) = 5
  /\ elfIn.file.little_endian
  /\ elfOut.res.kind = "Ok"

C2BuildId == <<160, 177, 194, 211, 228, 245, 6, 23, 40, 57, 74, 91, 108, 125, 142, 159>>

C2ActualId ==
  <<"D","3","C","2","B","1","A","0","F","5","E","4","1","7","0","6",
    "2","8","3","9","4","A","5","B","6","C","7","D","8","E","9","F","0">>

C2Case ==
  /\ elfOut.op = "get_symbolication_result"
  /\ elfIn.file.parses
  /\ elfIn.file.build_id = BuildId(C2BuildId)
  /\ elfIn.file.little_endian

\* C2 as stated: a little-endian ELF whose build-id is a0 b1 c2 d3 e4 f5 06 17
\* 28 39 4a 5b 6c 7d 8e 9f has the debug id string
\* D3C2B1A0F5E4172806394A5B6C7D8E9F0.
C2_AsStated == C2Case => elfOut.res.id_string = Some(C2ClaimedId)

\* C2, amended: the debug id string of that file is
\* D3C2B1A0F5E4170628394A5B6C7D8E9F0 (bytes 6..8, 06 17, reversed to 17 06, and
\* bytes 8..16 in file order), and a request for the string of the claim is
\* answered with UnmatchedBreakpadId.
C2_BuildIdExample ==
  C2Case =>
    /\ elfOut.res.id_string = Some(C2ActualId)
    /\ elfIn.breakpad_id = C2ActualId => elfOut.res.kind = "Ok"
    /\ elfIn.breakpad_id = C2ClaimedId => elfOut.res.kind = "UnmatchedBreakpadId"

\* that file was symbolicated under its id, and accepted
C2_Witness ==
  /\ C2Case
  /\ elfIn.breakpad_id = C2ActualId
  /\ elfOut.res.kind = "Ok"

\* bit b of byte x
Bit(x, b) == (x \div (2 ^ b)) % 2

\* accumulator byte k: the XOR of the bytes at i < min(len, 4096), i mod 16 = k
TextHashByte(section_data, k) ==
  LET n == Min(Len(section_data), PAGE_SIZE)
      at == {i \in 0..(n - 1) : i % UUID_SIZE = k}
      parity(b) == Cardinality({i \in at : Bit(section_data[i + 1], b) = 1}) % 2
  IN  parity(0) + (2 * parity(1)) + (4 * parity(2)) + (8 * parity(3))
        + (16 * parity(4)) + (32 * parity(5)) + (64 * parity(6))
        + (128 * parity(7))

TextHash(section_data) == [k \in 1..UUID_SIZE |-> TextHashByte(section_data, k - 1)]

HasTextSection(file) == \E i \in 1..Len(file.sections) : file.sections[i].kind = "Text"
FirstTextSection(file) ==
  file.sections[CHOOSE i \in 1..Len(file.sections) :
                  /\ file.sections[i].kind = "Text"
                  /\ \A j \in 1..(i - 1) : file.sections[j].kind /= "Text"]

\* C3: get_elf_id uses the build-id when there is one; otherwise the id is the
\* hash of .text, byte k being the XOR of the bytes at i < min(len, 4096) with
\* i mod 16 = k, put through the same endian-conditional reversal; with
\* neither a build-id nor a text section the result is None.
C3_GetElfId ==
  elfOut.op = "get_elf_id" =>
    LET file == elfIn.file
    IN  /\ file.build_id.res = "Some" =>
             elfOut.elf_id = Some(ExpectedId(file.build_id.val, file.little_endian))
        /\ (/\ file.build_id.res = "None"
            /\ HasTextSection(file)
            /\ FirstTextSection(file).readable) =>
             elfOut.elf_id
               = Some(ExpectedId(TextHash(SectionData(FirstTextSection(file))),
                                 file.little_endian))
        /\ (file.build_id.res = "None" /\ ~HasTextSection(file)) =>
             elfOut.elf_id = None

\* a file without build-id whose .text is longer than a page got an id
C3_Witness ==
  /\ elfOut.op = "get_elf_id"
  /\ elfIn.file.build_id.res = "None"
  /\ HasTextSection(elfIn.file)
  /\ FirstTextSection(elfIn.file).len > PAGE_SIZE
  /\ IsSome(elfOut.elf_id)

\* C4: the endian flip is an involution on 16-byte values and never changes
\* bytes 8..16.
C4_FlipInvolution ==
  (elfOut.op = "create_elf_id" /\ elfIn.little_endian) =>
    LET x == [j \in 1..UUID_SIZE |-> PaddedByte(elfIn.identifier, j - 1)]
    IN  /\ create_elf_id(elfOut.uuid, TRUE) = x
        /\ create_elf_id(create_elf_id(elfOut.uuid, TRUE), TRUE) = elfOut.uuid
        /\ \A j \in 9..UUID_SIZE : elfOut.uuid[j] = x[j]

\* a 16-byte identifier of pairwise different bytes was flipped
C4_Witness ==
  /\ elfOut.op = "create_elf_id"
  /\ elfIn.little_endian
  /\ elfIn.identifier = C2BuildId
  /\ elfOut.uuid /= elfIn.identifier

(***************************************************************************)
(* Properties of the PE and PDB breakpad ids and symbol tables.            *)
(***************************************************************************)
\* s is the bytes of id as 2 * Len(id) uppercase hexadecimal digits
IsUpperHexOf(s, id) ==
  /\ Len(s) = 2 * Len(id)
  /\ \A j \in 0..(Len(id) - 1) :
       /\ IsUpperDigit(s[(2 * j) + 1]) /\ IsUpperDigit(s[(2 * j) + 2])
       /\ (16 * UpperDigitValue(s[(2 * j) + 1])) + UpperDigitValue(s[(2 * j) + 2])
            = id[j + 1]

IsLowerDigit(c) == \E k \in 1..16 : LowerDigits[k] = c
LowerDigitValue(c) == (CHOOSE k \in 1..16 : LowerDigits[k] = c) - 1

RECURSIVE LowerHexValue(_)
LowerHexValue(s) ==
  IF s = <<>> THEN 0
  ELSE (16 * LowerHexValue(SubSeq(s, 1, Len(s) - 1))) + LowerDigitValue(s[Len(s)])

\* the u32 written by s in lowercase hexadecimal without padding, if any
ParseLowerHexU32(s) ==
  IF \/ Len(s) = 0 \/ Len(s) > 8
     \/ \E i \in 1..Len(s) : ~IsLowerDigit(s[i])
     \/ (Len(s) > 1 /\ s[1] = "0")
  THEN None
  ELSE IF Len(s) <= 4 THEN Some(U32(0, LowerHexValue(s)))
  ELSE Some(U32(LowerHexValue(SubSeq(s, 1, Len(s) - 4)),
                LowerHexValue(SubSeq(s, Len(s) - 3, Len(s)))))

\* age + 1 in 32-bit unsigned arithmetic
AgePlusOne(age) == IF age = U32_MAX THEN U32(0, 0) ELSE U32Succ(age)

\* splitting s after 32 characters gives guid and age
SplitsInto(s, guid, age) ==
  /\ Len(s) > 2 * UUID_SIZE
  /\ IsUpperHexOf(SubSeq(s, 1, 2 * UUID_SIZE), guid)
  /\ ParseLowerHexU32(SubSeq(s, (2 * UUID_SIZE) + 1, Len(s))) = Some(age)

\* C5: the ELF and the PDB get_symbolication_result return a result only when
\* the id string derived from the file equals the requested breakpad_id
\* character for character; on an inequality they return UnmatchedBreakpadId
\* with (id derived from the file, requested id) and build no symbol map.
C5_IdentityVerified ==
  /\ elfOut.op = "get_symbolication_result" =>
       LET res == elfOut.res
           elf_id == get_elf_id(elfIn.file)
       IN  /\ res.kind = "Ok" =>
                /\ elfIn.file.parses /\ IsSome(elf_id)
                /\ elf_id_string(Unwrap(elf_id)) = elfIn.breakpad_id
           /\ (/\ elfIn.file.parses /\ IsSome(elf_id)
               /\ elf_id_string(Unwrap(elf_id)) /= elfIn.breakpad_id) =>
                /\ res.kind = "UnmatchedBreakpadId"
                /\ res.got = elf_id_string(Unwrap(elf_id))
                /\ res.requested = elfIn.breakpad_id
           /\ res.kind /= "Ok" => res.map = None
  /\ pdbOut.op = "get_symbolication_result" =>
       LET res == pdbOut.res
           info == pdbIn.pdb.info
       IN  /\ res.kind = "Ok" =>
                /\ IsSome(info)
                /\ SplitsInto(pdbIn.breakpad_id, Unwrap(info).guid, Unwrap(info).age)
           /\ (/\ IsSome(info)
               /\ ~SplitsInto(pdbIn.breakpad_id, Unwrap(info).guid, Unwrap(info).age)) =>
                /\ res.kind = "UnmatchedBreakpadId"
                /\ SplitsInto(res.got, Unwrap(info).guid, Unwrap(info).age)
                /\ res.requested = pdbIn.breakpad_id
           /\ res.kind /= "Ok" => res.map = None

\* a PDB was asked for under its own id in another letter case, and refused
C5_Witness ==
  /\ pdbOut.op = "get_symbolication_result"
  /\ pdbOut.res.kind = "UnmatchedBreakpadId"
  /\ pdbOut.res.got /= pdbOut.res.requested
  /\ pdbIn.breakpad_id = [i \in 1..Len(pdbOut.res.got) |-> ToUpper(pdbOut.res.got[i])]
  /\ pdbOut.res.map = None

\* the CodeView record of a call of get_symbolication_result_via_binary that
\* came to compare ids
ComparedIds ==
  /\ pdbOut.op = "via_binary"
  /\ IsSome(pdbOut.res.expected)

C6Record == [signature |-> C6Signature, age |-> U32(0, 2), filename_nul_ok |-> TRUE]

C6ActualId == FormatSimpleUpper(C6Guid) \o <<"3">>

\* C6 as stated: for a PE whose CodeView record has GUID
\* {11223344-5566-7788-99AA-BBCCDDEEFF00} and age 2 the id expected is
\* 112233445566778899AABBCCDDEEFF002; in general the id of a record
\* (guid, age) is uppercase_hex(guid) followed by lowercase_hex(age).
C6_AsStated ==
  ComparedIds =>
    LET info == Unwrap(pdbIn.pe.codeview)
        expected == Unwrap(pdbOut.res.expected)
    IN  /\ info = C6Record =>
             expected = <<"1","1","2","2","3","3","4","4","5","5","6","6","7","7",
                          "8","8","9","9","A","A","B","B","C","C","D","D","E","E",
                          "F","F","0","0","2">>
        /\ SplitsInto(expected, ExpectedId(info.signature, TRUE), info.age)

\* C6, amended: for that PE the id expected is
\* 112233445566778899AABBCCDDEEFF003; in general, whenever the id check is
\* reached, the id expected of a record (guid, age) is uppercase_hex(guid)
\* followed by lowercase_hex(age + 1), the sum taken modulo 2^32.
C6_PeBreakpadId ==
  ComparedIds =>
    LET info == Unwrap(pdbIn.pe.codeview)
        expected == Unwrap(pdbOut.res.expected)
    IN  /\ info = C6Record =>
             expected = <<"1","1","2","2","3","3","4","4","5","5","6","6","7","7",
                          "8","8","9","9","A","A","B","B","C","C","D","D","E","E",
                          "F","F","0","0","3">>
        /\ SplitsInto(expected, ExpectedId(info.signature, TRUE), AgePlusOne(info.age))

\* the PE of the example was asked for under the id ending in 3, and accepted
C6_Witness ==
  /\ ComparedIds
  /\ Unwrap(pdbIn.pe.codeview) = C6Record
  /\ pdbIn.query.breakpad_id = C6ActualId
  /\ pdbOut.res.ret.kind = "Ok"

\* C7: in the exports-only fallback the expected id is uppercase_hex(signature
\* with its first three fields reversed) followed by lowercase_hex(age + 1) in
\* 32-bit unsigned arithmetic; the fallback succeeds iff the requested id is
\* that string and otherwise returns UnmatchedBreakpadId(expected, requested),
\* for every age including the maximum.
C7_ExportsFallbackId ==
  (pdbOut.op = "via_binary" /\ pdbOut.res.fallback) =>
    LET info == Unwrap(pdbIn.pe.codeview)
        ret == pdbOut.res.ret
        matches == SplitsInto(pdbIn.query.breakpad_id,
                              ExpectedId(info.signature, TRUE), AgePlusOne(info.age))
    IN  /\ ret.kind = "Ok" <=> matches
        /\ ~matches =>
             /\ ret.kind = "UnmatchedBreakpadId"
             /\ SplitsInto(ret.got, ExpectedId(info.signature, TRUE),
                           AgePlusOne(info.age))
             /\ ret.requested = pdbIn.query.breakpad_id

\* C8: (guid, age) -> 32 uppercase hex digits of the guid followed by the age
\* in lowercase hex without padding is lossless: no other pair gives the same
\* string, and splitting the string after 32 characters recovers guid and age.
C8_IdLossless ==
  /\ (pdbOut.op = "get_symbolication_result" /\ IsSome(pdbOut.res.pdb_id)) =>
       LET info == Unwrap(pdbIn.pdb.info)
           pdb_id == Unwrap(pdbOut.res.pdb_id)
       IN  /\ SplitsInto(pdb_id, info.guid, info.age)
           /\ \A guid \in Guids, age \in Ages :
                pdb_id_string(guid, age) = pdb_id =>
                  (guid = info.guid /\ age = info.age)
  /\ ComparedIds =>
       LET expected == Unwrap(pdbOut.res.expected)
       IN  \A signature \in Signatures, age \in Ages :
             (FormatSimpleUpper(pe_signature_to_uuid(signature))
                \o LowerHexU32(AgePlusOne(age))) = expected =>
               /\ signature = Unwrap(pdbIn.pe.codeview).signature
               /\ AgePlusOne(age) = AgePlusOne(Unwrap(pdbIn.pe.codeview).age)

\* the id of a PDB with a guid of bytes below 16 and an age of two digits
C8_Witness ==
  /\ pdbOut.op = "get_symbolication_result"
  /\ pdbOut.res.kind = "Ok"
  /\ Unwrap(pdbIn.pdb.info).guid[2] = 1
  /\ Unwrap(pdbIn.pdb.info).age = U32(0, 16)

\* the public function symbols at rva, by their place in the global symbols
PublicsAt(pdb, rva) ==
  {i \in 1..Len(Unwrap(pdb.global_symbols)) :
     LET symbol == Unwrap(pdb.global_symbols)[i]
     IN  symbol.kind = "Public" /\ symbol.function /\ symbol.rva = Some(rva)}

\* the procedure symbols at rva that the walk over the modules comes to, by
\* module and place: those of the modules whose info is read, before the
\* first error of the module's stream
ProceduresAt(pdb, rva) ==
  IF ~pdb.debug_information_ok THEN {}
  ELSE LET modules == Unwrap(pdb.modules)
       IN  {mi \in UNION {{<<m, i>> : i \in 1..Len(Unwrap(modules[m].symbols))} :
                            m \in {k \in 1..Len(modules) : modules[k].info = "Ok"}} :
              LET symbols == Unwrap(modules[mi[1]].symbols)
              IN  /\ symbols[mi[2]].kind = "Procedure"
                  /\ symbols[mi[2]].rva = Some(rva)
                  /\ \A j \in 1..(mi[2] - 1) : symbols[j].kind /= "IterErr"}

Before(a, b) == a[1] < b[1] \/ (a[1] = b[1] /\ a[2] <= b[2])

Rvas == {4096, 8192}

\* C9: in the rva -> name map of a PDB every rva with a public function symbol
\* has that symbol's name (the last one's, if several), whatever procedure
\* symbols are at the rva; a procedure symbol's name is used only at an rva
\* without public function symbol, and of several the first come to is kept.
C9_PublicSymbolsWin ==
  (pdbOut.op = "get_symbolication_result" /\ pdbOut.res.kind = "Ok") =>
    LET pdb == pdbIn.pdb
        map == Unwrap(pdbOut.res.map)
    IN  /\ DOMAIN map
             = {rva \in Rvas : PublicsAt(pdb, rva) /= {} \/ ProceduresAt(pdb, rva) /= {}}
        /\ \A rva \in DOMAIN map :
             IF PublicsAt(pdb, rva) /= {}
             THEN LET last == CHOOSE i \in PublicsAt(pdb, rva) :
                                \A j \in PublicsAt(pdb, rva) : j <= i
                  IN  map[rva] = [name |-> Unwrap(pdb.global_symbols)[last].name,
                                  dumped |-> FALSE]
             ELSE LET first == CHOOSE a \in ProceduresAt(pdb, rva) :
                                 \A b \in ProceduresAt(pdb, rva) : Before(a, b)
                  IN  map[rva]
                        = [name |-> Unwrap(Unwrap(pdb.modules)[first[1]].symbols)[first[2]].name,
                           dumped |-> TRUE]

\* a PDB with a public symbol and a procedure at 0x1000 and two procedures at
\* 0x2000, the second in a later module
C9_Witness ==
  /\ pdbOut.op = "get_symbolication_result"
  /\ pdbOut.res.kind = "Ok"
  /\ PublicsAt(pdbIn.pdb, 4096) /= {}
  /\ ProceduresAt(pdbIn.pdb, 4096) /= {}
  /\ Cardinality(ProceduresAt(pdbIn.pdb, 8192)) = 2
  /\ Unwrap(pdbOut.res.map)[4096].name = "?foo@@YAXH@Z"
  /\ Unwrap(pdbOut.res.map)[8192].name = "bar"

\* the name the exports give rva: that of the last export at rva
ExportName(exports, rva) ==
  LET last == CHOOSE i \in 1..Len(exports) :
                /\ exports[i].rva = rva
                /\ \A j \in (i + 1)..Len(exports) : exports[j].rva /= rva
  IN  IF IsSome(exports[last].name) THEN Unwrap(exports[last].name) ELSE "<unknown>"

\* C10: when the PE has a CodeView record, no candidate PDB attempt succeeds
\* and the id check passes, the result is built from exactly the PE exports
\* (rva -> name, "<unknown>" for unnamed exports) with no debug info; when the
\* PE has no CodeView record the result is NoDebugInfoInPeBinary and the
\* helper is not asked for candidates.
C10_ExportsOnly ==
  pdbOut.op = "via_binary" =>
    LET pe == pdbIn.pe
        res == pdbOut.res
    IN  /\ (/\ pe.parses /\ IsSome(pe.codeview)
            /\ res.fallback
            /\ res.expected = Some(pdbIn.query.breakpad_id)) =>
             /\ res.ret.kind = "Ok"
             /\ res.ret.debug_info = "never"
             /\ DOMAIN Unwrap(res.ret.map)
                  = {pe.exports[i].rva : i \in 1..Len(pe.exports)}
             /\ \A rva \in DOMAIN Unwrap(res.ret.map) :
                  Unwrap(res.ret.map)[rva] = ExportName(pe.exports, rva)
        /\ (pe.parses /\ ~IsSome(pe.codeview)) =>
             /\ res.ret.kind = "NoDebugInfoInPeBinary"
             /\ ~res.asked
             /\ res.opened = <<>>

\* a PE with a named and an unnamed export, whose candidate PDB could not be
\* used, was symbolicated from its exports
C10_Witness ==
  /\ pdbOut.op = "via_binary"
  /\ pdbOut.res.fallback
  /\ pdbOut.res.opened /= <<>>
  /\ pdbOut.res.ret.kind = "Ok"
  /\ pdbIn.pe.exports = <<Export(8192, Some("bar")), Export(4096, None)>>

(***************************************************************************)
(* Properties of the PDB candidate loop.                                   *)
(***************************************************************************)
\* the call came to the candidate loop
CameToLoop ==
  /\ pdbOut.op = "via_binary"
  /\ pdbOut.res.asked
  /\ IsSome(pdbIn.helper.candidates)

\* the value returned is the table of a PDB
ReturnedPdbTable ==
  pdbOut.res.ret.kind = "Ok" /\ pdbOut.res.ret.debug_info = "if wanted"

\* the errors an attempt on a candidate can end with, other than
\* UnmatchedBreakpadId
AttemptOnlyErrors ==
  {"HelperErrorDuringReadFile", "PdbError", "pdb_information", "address_map",
   "global_symbols", "global_symbols.iter()", "type_information", "dbi.modules()"}

\* C11: a failed attempt on a PDB candidate is swallowed: the call never
\* returns a read error or a PDB error, an UnmatchedBreakpadId it returns is
\* the fallback's own (it carries the id expected of the PE), and whenever no
\* attempt gave a table, control has come to the exports-only fallback.
C11_CandidateErrorsSwallowed ==
  CameToLoop =>
    /\ pdbOut.res.ret.kind \notin AttemptOnlyErrors
    /\ pdbOut.res.ret.kind = "UnmatchedBreakpadId" =>
         /\ pdbOut.res.fallback
         /\ pdbOut.res.ret.got
              = FormatSimpleUpper(pe_signature_to_uuid(Unwrap(pdbIn.pe.codeview).signature))
                  \o LowerHexU32(AgePlusOne(Unwrap(pdbIn.pe.codeview).age))
    /\ ~ReturnedPdbTable => pdbOut.res.fallback

\* two attempts were made, both on a PDB of another id than the one asked
\* for, and the call went on to return the table of the exports
C11_Witness ==
  /\ CameToLoop
  /\ Len(pdbOut.res.opened) = 2
  /\ pdbIn.helper.files[BinPath] = PdbFile(PlainPdb(C6Guid, U32(0, 3)))
  /\ pdbOut.res.fallback
  /\ pdbOut.res.ret.kind = "Ok"
  /\ pdbOut.res.ret.debug_info = "never"

\* the candidates that are not the binary's own path, in the order given
Attempted == SelectSeq(Unwrap(pdbIn.helper.candidates), LAMBDA p : p /= pdbIn.query.path)

\* C12: the files opened are those at the candidates' paths, in the order
\* given and without the binary's own path, up to the first attempt that
\* succeeds; all of them if none succeeds.
C12_CandidateOrder ==
  CameToLoop =>
    LET opened == pdbOut.res.opened
    IN  /\ Len(opened) <= Len(Attempted)
        /\ \A i \in 1..Len(opened) : opened[i] = Attempted[i]
        /\ ReturnedPdbTable => Len(opened) >= 1
        /\ ~ReturnedPdbTable => Len(opened) = Len(Attempted)

(***************************************************************************)
(* Properties of the JIT bookkeeping and of the lib-mapping ledger.        *)
(***************************************************************************)
\* C13: after any sequence of MethodLoadVerbose events the symbols of the
\* process's ProcessJitInfo are sorted by relative address and no two of
\* them have the same relative address.
C13_SymbolsSortedUnique ==
  jit /= Idle =>
    \A i \in 1..Len(jit.symbols), j \in 1..Len(jit.symbols) :
      i < j => WLess(jit.symbols[i].address, jit.symbols[j].address)

\* the relative range [address, address + size) of a symbol ends at end
\* without leaving the 32 bits
RangeEndsAt(symbol, end) ==
  LET r == WAdd(symbol.address, Unwrap(symbol.size))
  IN  ~r.overflow /\ r.sum = end

\* the ranges of the symbols of p follow one another from 0 on, the last
\* ending at next_relative_address
Dense(p) ==
  /\ p.symbols /= <<>> => p.symbols[1].address = W32(0, 0)
  /\ \A i \in 1..(Len(p.symbols) - 1) :
       RangeEndsAt(p.symbols[i], p.symbols[i + 1].address)
  /\ (p.symbols /= <<>> /\ ~p.panicked) =>
       RangeEndsAt(p.symbols[Len(p.symbols)], p.next_relative_address)

\* C14: relative addresses are dense-allocated: an event with size s assigns
\* the range [n, n+s), n being next_relative_address before it, and leaves
\* next_relative_address at n+s; next_relative_address never decreases in 32
\* bits, so that the ranges assigned never overlap.
C14_DenseAllocation ==
  [][jit /= Idle =>
       /\ Dense(jit')
       /\ WLeq(jit.next_relative_address, jit'.next_relative_address)]_vars

\* the timestamps at which the ledger is looked at: those of the events and
\* the times between them
LedgerTimes(ops) ==
  {0} \cup UNION {{ops[i].timestamp, ops[i].timestamp + (TimeStep \div 2)} :
                    i \in 1..Len(ops)}

DisjointAt(ops, timestamp) ==
  \A m1 \in Reconstruct(ops, timestamp), m2 \in Reconstruct(ops, timestamp) :
    m1 /= m2 => ~Overlap(m1, m2)

AddsInForce(ops, timestamp, avma) ==
  {i \in 1..Len(ops) :
     /\ ops[i].timestamp <= timestamp
     /\ ops[i].op.kind = "Add"
     /\ WLeq(ops[i].op.start_avma, avma) /\ WLess(avma, ops[i].op.end_avma)
     /\ \A j \in (i + 1)..Len(ops) :
          ops[j].timestamp <= timestamp =>
            /\ ops[j].op.kind /= "Clear"
            /\ ~(ops[j].op.kind = "Remove" /\ ops[j].op.start_avma = ops[i].op.start_avma)}

ResolvesAsClaimed(ops, timestamp, avma) ==
  LET adds == AddsInForce(ops, timestamp, avma)
  IN  IF adds = {} THEN Resolve(ops, timestamp, avma) = {Unmapped}
      ELSE LET add == ops[CHOOSE i \in adds : \A j \in adds : j <= i].op
           IN  Resolve(ops, timestamp, avma)
                 = {[info |-> add.info,
                     relative_address |->
                       WAdd(add.relative_address_at_start,
                            AsU32(WSub(avma, add.start_avma))).sum]}

SampleAddresses ==
  {W64(0, 0, 0, 4095), W64(0, 0, 0, 4096), W64(0, 0, 0, 5376), W64(0, 0, 0, 6400),
   W64(0, 0, 0, 8192), W64(0, 0, 0, 12287), W64(0, 0, 0, 12288)}

\* the events of the example: Add@100 [0x1000,0x2000) libA, Remove@200 0x1000,
\* Add@300 [0x1000,0x3000) libB
C16Example ==
  <<[timestamp |-> 100,
     op |-> LibMappingAdd(W64(0, 0, 0, 4096), W64(0, 0, 0, 8192), W32(0, 0), "libA")],
    [timestamp |-> 200, op |-> LibMappingRemove(W64(0, 0, 0, 4096))],
    [timestamp |-> 300,
     op |-> LibMappingAdd(W64(0, 0, 0, 4096), W64(0, 0, 0, 12288), W32(0, 0), "libB")]>>

LookedUp == symOut /= Idle
Symbols == symIn.self.inner.symbols

\* symbol i has the greatest address <= the address looked up
IsGreatestAtOrBelow(i) ==
  /\ Symbols[i].address <= symIn.address
  /\ \A j \in 1..Len(Symbols) :
       Symbols[j].address <= symIn.address => Symbols[j].address <= Symbols[i].address

Ran == cliOut /= Idle /\ cliOut.op = "record"
Argv == cliIn.argv

\* token k is the value of a -p before it
RECURSIVE IsPidValue(_)
IsPidValue(k) == k > 1 /\ Argv[k - 1] = TokPidShort /\ ~IsPidValue(k - 1)

\* token k is an option token of samply: it begins with '-' and is no value
IsOptionToken(k) == Argv[k][1] = "-" /\ ~IsPidValue(k)

\* token k is positional: it is neither an option token nor an option's value
IsPositional(k) == ~IsOptionToken(k) /\ ~IsPidValue(k)

\* the command name is token k: the first positional token, with no `--`
\* before it
IsCommandName(k) ==
  /\ k \in 1..Len(Argv)
  /\ IsPositional(k)
  /\ \A j \in 1..(k - 1) : ~IsPositional(j) /\ Argv[j] /= TokEscape

\* C19: when `samply record` is parsed, the tokens from the command name on,
\* option-like or not, are the profiled command; the option tokens before it
\* are samply's options (--no-open sets no_open, -p <pid> the pid); and a
\* command line with both -p <pid> and a command is a parse error.
C19_TrailingCommand ==
  Ran =>
    LET opt == cliOut.res.parsed
    IN  /\ \A k \in 1..Len(Argv) :
             (IsCommandName(k) /\ opt.ok) =>
               /\ opt.record_args.command = SubSeq(Argv, k, Len(Argv))
               /\ opt.record_args.no_open = (\E j \in 1..(k - 1) : Argv[j] = TokNoOpen)
               /\ ~IsSome(opt.record_args.pid)
        /\ \A k \in 1..Len(Argv) :
             (IsCommandName(k) /\ \E j \in 1..(k - 1) : IsPidValue(j)) => ~opt.ok
        /\ opt.ok => ~(IsSome(opt.record_args.pid) /\ opt.record_args.command /= <<>>)

\* `samply record --no-open ls --no-open` was parsed: the first --no-open is
\* samply's, the second the command's
C19_Witness ==
  /\ Ran
  /\ Argv = <<TokNoOpen, <<"l", "s">>, TokNoOpen>>
  /\ cliOut.res.parsed.ok
  /\ cliOut.res.parsed.record_args.command = <<<<"l", "s">>, TokNoOpen>>
  /\ cliOut.res.parsed.record_args.no_open

\* C20: the assertion of process_launch_props holds on every run of Record
\* that the parser accepts, and `samply record -p <pid>` without a command
\* comes to profiler::start_profiling_pid with that pid.
C20_AssertionHolds ==
  (Ran /\ cliOut.res.parsed.ok) =>
    /\ cliOut.res.outcome.kind /= "panic"
    /\ IsSome(cliOut.res.parsed.record_args.pid) =>
         cliOut.res.outcome
           = [kind |-> "start_profiling_pid",
              pid |-> Unwrap(cliOut.res.parsed.record_args.pid)]

(***************************************************************************)
(* Exit codes of `samply record` and `samply import`.                      *)
(***************************************************************************)
\* start_recording was called and returned `recording`
ReturnedFromStartRecording ==
  \/ Ran /\ cliOut.res.outcome.kind = "start_recording"
  \/ cliOut /= Idle /\ cliOut.op = "import" /\ cliIn.target_os = "windows"

ImportedOnLinux == cliOut /= Idle /\ cliOut.op = "import" /\ cliIn.target_os = "linux"

\* the input cannot be opened, the conversion fails, or the output file
\* cannot be created or does not take all bytes of the profile
ImportFails(env) ==
  \/ ~env.open_ok
  \/ ~env.convert_ok
  \/ ~env.create_ok
  \/ env.room < env.profile_len

\* C21: when start_recording returns an exit status the process exits with
\* its code, or with 0 if it has none; when it returns an error the process
\* ends with a non-zero code; and `samply import` on Linux ends with a
\* non-zero code whenever the input cannot be opened, the conversion fails,
\* or the output file cannot be created or written.
C21_ExitCodes ==
  /\ ReturnedFromStartRecording =>
        LET recording == cliIn.recording
        IN  /\ (recording.ok /\ IsSome(recording.code)) =>
                  cliOut.status = Exit(Unwrap(recording.code))
            /\ (recording.ok /\ ~IsSome(recording.code)) => cliOut.status = Exit(0)
            /\ ~recording.ok => NonZeroTermination(cliOut.status)
  /\ ImportedOnLinux =>
        (ImportFails(cliIn.env) => NonZeroTermination(cliOut.status))

(***************************************************************************)
(* Properties of the ETW property parser.                                  *)
(***************************************************************************)
Called == etw /= Idle /\ IsSome(etw.last)
LastCall == Unwrap(etw.last)
EtwSchema == etw.parser.event.schema

\* the last call asked for a property of the schema, and find_property found it
FoundProperty ==
  /\ Called
  /\ IsSome(name_to_indx(etw.parser, LastCall.name))
  /\ find_property(LastCall.before, LastCall.name).res.kind = "Ok"

\* the PropertyInfo of the property the last call asked for
LastPropInfo == etw.parser.cache[Unwrap(name_to_indx(etw.parser, LastCall.name)) + 1]

StringInTypes ==
  {"InTypeUnicodeString", "InTypeAnsiString", "InTypeCountedString", "InTypeGuid"}

\* C22: try_parse::<String> returns Ok for a property of in-type
\* InTypeUnicodeString, InTypeAnsiString, InTypeCountedString or InTypeGuid
\* (the values drawn are well-formed), and for no property does it panic.
C22_StringParse ==
  (Called /\ LastCall.T = "String") =>
    /\ LastCall.res.kind /= "panic"
    /\ (FoundProperty /\ LastPropInfo.property.in_type \in StringInTypes) =>
          LastCall.res.kind = "Ok"

RECURSIVE SizesBefore(_, _)
\* the sum of the sizes of the cached properties 0..i-1
SizesBefore(cache, i) ==
  IF i = 0 THEN 0 ELSE SizesBefore(cache, i - 1) + Len(cache[i].buffer)

\* the invariants of a Parser
ParserInvariants(self) ==
  /\ self.offset + Len(self.buffer) = Len(self.event.user_buffer)
  /\ Len(self.cache) <= Len(self.event.schema)
  /\ \A i \in 1..Len(self.cache) :
       /\ self.cache[i].property = self.event.schema[i]
       /\ self.cache[i].offset = SizesBefore(self.cache, i - 1)
       /\ self.cache[i].buffer
            = SubSeq(self.event.user_buffer, self.cache[i].offset + 1,
                     self.cache[i].offset + Len(self.cache[i].buffer))

\* the last call found the last property of the schema
FoundLastProperty ==
  /\ FoundProperty
  /\ LastCall.name = PropertyName(Len(EtwSchema) - 1)

\* C25: after any sequence of calls the parser invariants hold: offset and
\* remaining buffer add up to the user buffer, cache[i] is property i with
\* the offset and the bytes of its place in the user buffer; and once the
\* last property has been found the cache holds every property and, if the
\* sizes add up to the length of the user buffer, nothing remains.
C25_ParserInvariants ==
  (etw /= Idle) =>
    /\ ParserInvariants(etw.parser)
    /\ FoundLastProperty =>
         /\ Len(etw.parser.cache) = Len(EtwSchema)
         /\ (SizesBefore(etw.parser.cache, Len(EtwSchema)) = Len(etw.parser.event.user_buffer))
              => etw.parser.buffer = <<>>

\* a UInt32 and a string were parsed from a buffer that holds just them
C25_Witness ==
  /\ FoundLastProperty
  /\ Len(etw.parser.cache) = 2
  /\ etw.parser.cache[1].property.in_type = "InTypeUInt32"
  /\ etw.parser.cache[2].offset = 4
  /\ etw.parser.cache[2].buffer = <<97, 0, 0, 0>>
  /\ etw.parser.buffer = <<>>
  /\ etw.parser.offset = 8

\* C26: a call changes the parser only if the index of the property asked
\* for is at least len(cache); find_property answers an unknown name with
\* PropertyError("Unknown property") and a cached property with its index,
\* both without a change; and no call changes what any later call returns,
\* so a property parsed twice has the same value, in whatever order the
\* properties are asked for.
C26_FindPropertyFrame ==
  [][(etw /= Idle /\ etw' /= Idle) =>
       LET before == etw.parser
           after == etw'.parser
           call == Unwrap(etw'.last)
           indx == name_to_indx(before, call.name)
       IN  /\ (after /= before) => (IsSome(indx) /\ Unwrap(indx) >= Len(before.cache))
           /\ find_property(before, UnknownName)
                = [parser |-> before,
                   res |-> ParserErr(PropertyError("Unknown property"))]
           /\ \A i \in 0..(Len(before.cache) - 1) :
                find_property(before, PropertyName(i))
                  = [parser |-> before, res |-> ParserOk(i)]
           /\ \A T \in ParsedTypes, name \in PropertyNames(before.event) :
                try_parse(after, T, name).res = try_parse(before, T, name).res]_vars

\* a UInt32 was parsed a second time, after a later property, with the
\* value it has
C26_Witness ==
  /\ Called
  /\ LastCall.T = "u32" /\ LastCall.name = PropertyName(0)
  /\ LastCall.res = ParserOk(<<1, 2, 3, 4>>)
  /\ Len(LastCall.before.cache) = 2
  /\ etw.parser = LastCall.before

OutOfBounds == ParserErr(PropertyError("Property length out of buffer bounds"))

\* C27: when find_property fails with "Property length out of buffer
\* bounds" at property i, the cache holds exactly the properties before i,
\* those parsed during the failing call included, offset and buffer are
\* past them and the invariants hold; property i does not fit the rest of
\* the buffer; a lookup of a property below i succeeds, and a lookup of
\* property i fails again with the same error.
C27_FailedLookup ==
  (Called /\ LastCall.res = OutOfBounds) =>
    LET self == etw.parser
        i == Len(self.cache)
    IN  /\ i < Len(EtwSchema)
        /\ i >= Len(LastCall.before.cache)
        /\ SubSeq(self.cache, 1, Len(LastCall.before.cache)) = LastCall.before.cache
        /\ ParserInvariants(self)
        /\ self.offset = SizesBefore(self.cache, i)
        /\ Len(self.buffer) < find_property_size(self, EtwSchema[i + 1]).value
        /\ \A j \in 0..(i - 1) :
             find_property(self, PropertyName(j)) = [parser |-> self, res |-> ParserOk(j)]
        /\ find_property(self, PropertyName(i)) = [parser |-> self, res |-> OutOfBounds]
        /\ find_property(self, LastCall.name) = [parser |-> self, res |-> OutOfBounds]

\* the lookup of the second property failed and left the first in the cache
C27_Witness ==
  /\ Called /\ LastCall.res = OutOfBounds
  /\ LastCall.name = PropertyName(1)
  /\ LastCall.before.cache = <<>>
  /\ Len(etw.parser.cache) = 1
  /\ etw.parser.offset = 4

\* C28: try_parse::<Pointer> of a property of in-type InTypePointer whose
\* bytes are as many as a pointer of the event is Ok, its value the bytes
\* zero-extended to 64 bits, the same as try_parse::<u64> returns.
C28_PointerParse ==
  (/\ Called /\ LastCall.T = "Pointer"
   /\ FoundProperty
   /\ LastPropInfo.property.in_type = "InTypePointer"
   /\ Len(LastPropInfo.buffer) = PointerSize(etw.parser.event)) =>
    /\ LastCall.res = ParserOk(AsU64Bytes(LastPropInfo.buffer))
    /\ LastCall.res = try_parse_u64(etw.parser, LastCall.name).res

(***************************************************************************)
(* Properties of library_info_for_binary_at_path.                          *)
(***************************************************************************)
DyldCalled == dyld /= Idle /\ IsSome(dyld.out)
DyldOut == Unwrap(dyld.out)

\* what the call returns for a condition `in_system_dir` on the path
DyldFallbackWhen(in_system_dir) ==
  /\ DyldOut.dyld_attempted
       <=> (/\ ~dyld.binary_res.ok
            /\ dyld.binary_res.error = "HelperErrorDuringOpenFile"
            /\ in_system_dir)
  /\ (~dyld.binary_res.ok /\ ~DyldOut.dyld_attempted) => DyldOut.res = dyld.binary_res
  /\ dyld.binary_res.ok =>
       /\ ~DyldOut.dyld_attempted
       /\ DyldOut.res = [ok |-> TRUE, library_info |-> dyld.binary_res.binary]
  /\ (DyldOut.dyld_attempted /\ ~dyld.dyld_res.ok) => DyldOut.res = dyld.dyld_res
  /\ (DyldOut.dyld_attempted /\ dyld.dyld_res.ok) =>
       DyldOut.res = [ok |-> TRUE, library_info |-> dyld.dyld_res.binary]

\* the claim as it is worded: the characters of the path begin with /usr/
\* or /System/
C23_AsStated ==
  DyldCalled =>
    DyldFallbackWhen(str_starts_with(dyld.path, PathUsr)
                       \/ str_starts_with(dyld.path, PathSystem))

\* C23: the dyld shared cache is tried if and only if the load of the local
\* file failed with HelperErrorDuringOpenFile and the components of the
\* path begin with those of /usr/ or /System/ (so for /usr itself and for
\* //usr/x too); any other error is returned as it is, a loaded local
\* binary is never replaced, and an error of the dyld attempt is the result.
C23_DyldFallback ==
  DyldCalled =>
    DyldFallbackWhen(starts_with(dyld.path, PathUsr) \/ starts_with(dyld.path, PathSystem))

\* //usr/x could not be opened, the dyld cache was tried and its error
\* returned
C23_Witness ==
  /\ DyldCalled
  /\ dyld.path = <<"/", "/", "u", "s", "r", "/", "x">>
  /\ DyldOut.dyld_attempted
  /\ DyldOut.res = [ok |-> FALSE, error |-> "NoMatchingDyldCacheImagePath"]

(***************************************************************************)
(* Properties of handle_coreclr_event.                                     *)
(***************************************************************************)
\* what the profile context holds: the processes that have JIT info, with
\* the next address, the mapping ops and the symbols of each, and the markers
JitView(context, pid) ==
  IF ~IsSome(context.process_jit_infos[pid]) THEN None
  ELSE LET p == Unwrap(context.process_jit_infos[pid])
       IN  Some([next_relative_address |-> p.next_relative_address,
                 jit_mapping_ops |-> p.jit_mapping_ops, symbols |-> p.symbols])

ContextView(context) ==
  [process_jit_infos |-> [pid \in ProcessIds |-> JitView(context, pid)],
   markers |-> context.markers]

\* the event s took the context from `before` to `after`
Handled(before, after, s) ==
  /\ before /= Idle /\ ~before.panicked
  /\ after = handle_coreclr_event(before, s)

\* the address bump, the mapping op and the symbol of s were all applied
\* to the JIT info of its process
AppliedTogether(before, after, s) ==
  LET old == JitView(ensure_process_jit_info(before, s.process_id), s.process_id)
      new == JitView(after, s.process_id)
  IN  /\ IsSome(new)
      /\ Unwrap(new).next_relative_address
           = WAdd(Unwrap(old).next_relative_address, s.method_size).sum
      /\ Len(Unwrap(new).jit_mapping_ops) = Len(Unwrap(old).jit_mapping_ops) + 1
      /\ Len(Unwrap(new).symbols) = Len(Unwrap(old).symbols) + 1

\* C24: a MethodLoadVerbose event leaves the context as it was or applies
\* bump, mapping op and symbol together; and an event of a process that
\* get_process does not know, or whose properties do not parse, leaves the
\* context, the set of processes with JIT info included, as it was.
C24_CommittedPerEvent ==
  [][\A s \in CoreClrEvents :
       (Handled(ctx, ctx', s) /\ s.dotnet_runtime
          /\ s.name = "CLRMethod/MethodLoadVerbose") =>
         /\ \/ ContextView(ctx') = ContextView(ctx)
            \/ AppliedTogether(ctx, ctx', s)
         /\ (~IsSome(get_process(ctx, s.process_id)) \/ ~s.parse_ok) =>
              ContextView(ctx') = ContextView(ctx)]_vars

\* C30: only CLRMethod/MethodLoadVerbose changes the context, every other
\* event of the .NET runtime provider leaves it as it was; and a
\* MethodLoadVerbose event of a known process adds the mapping op and the
\* symbol whether the process has a main thread handle or not, and the
\* JitFunctionAdd marker exactly when it has one.
C30_OnlyMethodLoadVerbose ==
  [][\A s \in CoreClrEvents :
       (Handled(ctx, ctx', s) /\ s.dotnet_runtime) =>
         /\ (s.name /= "CLRMethod/MethodLoadVerbose") =>
              (ContextView(ctx') = ContextView(ctx) /\ ~ctx'.panicked)
         /\ (/\ s.name = "CLRMethod/MethodLoadVerbose"
             /\ IsSome(get_process(ctx, s.process_id))
             /\ s.parse_ok) =>
              /\ AppliedTogether(ctx, ctx', s)
              /\ Len(ctx'.markers) = Len(ctx.markers) + 1
                   <=> IsSome(Unwrap(get_process(ctx, s.process_id)).main_thread_handle)
              /\ Len(ctx'.markers) \in {Len(ctx.markers), Len(ctx.markers) + 1}]_vars

(***************************************************************************)
(* Properties of RecordArgs::process_launch_props.                         *)
(***************************************************************************)
Launched == cliOut /= Idle /\ cliOut.op = "process_launch_props"
HasEquals(item) == \E k \in 1..Len(item) : item[k] = "="

\* the length of the longest prefix of items that contain '='
EnvPrefixLen(command) ==
  CHOOSE n \in 0..Len(command) :
    /\ \A k \in 1..n : HasEquals(command[k])
    /\ n = Len(command) \/ ~HasEquals(command[n + 1])

\* C29: for a non-empty command vector, env_vars are the items of the
\* longest prefix of items that contain '=', each split at its first '='
\* (name, '=' and value make the item, and the name has no '='), the
\* command name is the first item without '=' and args are the items after
\* it; if every item contains '=' the process exits with status 1; and the
\* vector is never indexed past its end.
C29_ProcessLaunchProps ==
  (Launched /\ cliIn.self.command /= <<>>) =>
    LET command == cliIn.self.command
        n == EnvPrefixLen(command)
        res == cliOut.res
    IN  /\ res.kind /= "panic"
        /\ (n = Len(command)) => res = [kind |-> "exit", code |-> 1]
        /\ (n < Len(command)) =>
             /\ res.kind = "props"
             /\ Len(res.env_vars) = n
             /\ \A k \in 1..n :
                  /\ res.env_vars[k][1] \o <<"=">> \o res.env_vars[k][2] = command[k]
                  /\ ~HasEquals(res.env_vars[k][1])
             /\ res.command_name = command[n + 1]
             /\ res.args = SubSeq(command, n + 2, Len(command))

\* `a=b=c ls A=b`: one variable a with the value b=c, the command ls with
\* the argument A=b
C29_Witness ==
  /\ Launched
  /\ cliIn.self.command = <<<<"a", "=", "b", "=", "c">>, <<"l", "s">>, <<"A", "=", "b">>>>
  /\ cliOut.res.kind = "props"
  /\ cliOut.res.env_vars = <<<<<<"a">>, <<"b", "=", "c">>>>>>
  /\ cliOut.res.command_name = <<"l", "s">>
  /\ cliOut.res.args = <<<<"A", "=", "b">>>>

====
